---------------------------- MODULE Spec2Model ----------------------------
(***************************************************************************)
(* MCTier: the overlay-tunnel supervisor (NetworkService), the lobby       *)
(* session manager (LobbyManager), the peer discovery service              *)
(* (P2PSignalingService) and the commands that sequence them.              *)
(*                                                                         *)
(* Every command holds the AppCore lock from its first line to its last,   *)
(* so at most one command runs at a time; the model keeps one command      *)
(* position (cmdPc).  The tasks spawned by start_easytier (stdout reader,  *)
(* stderr reader, process monitor), the daemon itself and the discovery    *)
(* receive loop run concurrently with the command and are interleaved     *)
(* between its steps; a step is one stretch of the command between two     *)
(* points where it waits.  Tasks of one kind are counted, not named.       *)
(***************************************************************************)
EXTENDS Integers, Sequences, FiniteSets, TLC

\* ------------------------------------------------------------------ bounds
\* number of tasks of one kind (stdout readers, stderr readers, process
\* monitors, receive loops) that are alive at the same time
MaxTasks == 2

\* ------------------------------------------------------- program constants
MinNameLen == 4
MaxNameLen == 32
MinPasswordLen == 8
MaxPasswordLen == 32

\* ------------------------------------------------------------- addresses
\* An address string is the sequence of its '.'-separated parts plus a flag
\* for a trailing "/len" suffix.  A part is the number it spells, or NaN for
\* a part that is not a number.
NaN == -1

NoIp == [parts |-> <<>>, cidr |-> FALSE]

Addr(a, b, c, d) == [parts |-> <<a, b, c, d>>, cidr |-> FALSE]

AddrCidr(a, b, c, d) == [parts |-> <<a, b, c, d>>, cidr |-> TRUE]

\* part.parse::<u8>().is_ok()
ParseU8Ok(part) == part >= 0 /\ part <= 255

\* the octets that parse, in order (filter_map(parse::<u8>().ok()))
RECURSIVE ParsedOctets(_)
ParsedOctets(parts) ==
    IF parts = <<>> THEN <<>>
    ELSE IF ParseU8Ok(Head(parts))
         THEN <<Head(parts)>> \o ParsedOctets(Tail(parts))
         ELSE ParsedOctets(Tail(parts))

is_valid_ip(ip) ==
    /\ ~ip.cidr
    /\ Len(ip.parts) = 4
    /\ \A i \in 1..4 : ParseU8Ok(ip.parts[i])

is_loopback(ip) ==
    LET p == ParsedOctets(ip.parts)
    IN  Len(p) = 4 /\ p[1] = 127

is_private_ip(ip) ==
    LET p == ParsedOctets(ip.parts)
    IN  /\ Len(p) = 4
        /\ \/ p[1] = 10
           \/ p[1] = 172 /\ p[2] >= 16 /\ p[2] <= 31
           \/ p[1] = 192 /\ p[2] = 168

\* the host-octet test both channels apply after their own filter
IsHostOctet(ip) ==
    /\ Len(ip.parts) = 4
    /\ ParseU8Ok(ip.parts[4])
    /\ ip.parts[4] >= 1
    /\ ip.parts[4] <= 254

\* A stdout line, as the reader sees it: whether it carries one of the
\* keywords, whether it matches an exclusion, and the dotted-quads the
\* regular expression finds in it, left to right.
FirstOrNothing(quads) ==
    IF quads # <<>> /\ is_valid_ip(Head(quads)) /\ is_private_ip(Head(quads))
       /\ ~is_loopback(Head(quads))
    THEN Head(quads) ELSE NoIp

RECURSIVE FirstAccepted(_)
FirstAccepted(quads) ==
    IF quads = <<>> THEN NoIp
    ELSE IF is_valid_ip(Head(quads)) /\ is_private_ip(Head(quads))
            /\ ~is_loopback(Head(quads))
         THEN Head(quads)
         ELSE FirstAccepted(Tail(quads))

extract_ip_from_line(line) == FirstAccepted(line.quads)

\* monitor_stdout, per line: the address it records, or NoIp
StdoutAccepts(line) ==
    IF line.keyword /\ ~line.excluded
    THEN LET ip == extract_ip_from_line(line)
         IN  IF ip # NoIp /\ IsHostOctet(ip) THEN ip ELSE NoIp
    ELSE NoIp

\* the CIDR suffix is cut at the first '/'
StripCidr(s) == [parts |-> s.parts, cidr |-> FALSE]

CliFields == <<"virtual_ipv4", "ipv4", "virtual_ip", "ip", "ipv4_addr">>

\* query_virtual_ip_from_cli on a parsed JSON object: json is a function
\* from field names to [present, isStr, val]
RECURSIVE CliScan(_, _)
CliScan(json, i) ==
    IF i > Len(CliFields) THEN NoIp
    ELSE LET f == json[CliFields[i]]
             ip == StripCidr(f.val)
         IN  IF f.present /\ f.isStr /\ is_valid_ip(ip) /\ IsHostOctet(ip)
             THEN ip
             ELSE CliScan(json, i + 1)

\* answer.ok is FALSE when the CLI could not be run, exited non-zero or
\* printed something that is not JSON
query_virtual_ip_from_cli(answer) ==
    IF answer.ok THEN CliScan(answer.json, 1) ELSE NoIp

\* what the daemon can print on stdout
StdoutLines ==
    { [keyword |-> TRUE,  excluded |-> FALSE, quads |-> <<Addr(10, 126, 126, 1)>>],
      [keyword |-> TRUE,  excluded |-> FALSE,
       quads |-> <<Addr(127, 0, 0, 1), Addr(10, 126, 126, 1)>>],
      [keyword |-> TRUE,  excluded |-> FALSE, quads |-> <<Addr(8, 8, 8, 8)>>],
      [keyword |-> TRUE,  excluded |-> FALSE, quads |-> <<Addr(10, 126, 126, 0)>>],
      [keyword |-> TRUE,  excluded |-> FALSE, quads |-> <<Addr(256, 1, 1, 1)>>],
      [keyword |-> TRUE,  excluded |-> TRUE,  quads |-> <<Addr(10, 126, 126, 9)>>],
      [keyword |-> FALSE, excluded |-> FALSE, quads |-> <<Addr(10, 126, 126, 7)>>],
      [keyword |-> TRUE,  excluded |-> FALSE, quads |-> <<>>] }

FieldAbsent == [present |-> FALSE, isStr |-> FALSE, val |-> NoIp]

FieldStr(v) == [present |-> TRUE, isStr |-> TRUE, val |-> v]

FieldNum == [present |-> TRUE, isStr |-> FALSE, val |-> NoIp]

CliFieldSet == {CliFields[i] : i \in 1..Len(CliFields)}

JsonObj(m) == [f \in CliFieldSet |-> IF f \in DOMAIN m THEN m[f] ELSE FieldAbsent]

\* what the companion CLI can answer to "node info"
CliAnswers ==
    { [ok |-> FALSE, json |-> JsonObj(<<>>)],
      [ok |-> TRUE,  json |-> JsonObj(<<>>)],
      [ok |-> TRUE,  json |-> JsonObj("ipv4_addr" :> FieldStr(AddrCidr(10, 126, 126, 1)))],
      [ok |-> TRUE,  json |-> JsonObj(("virtual_ipv4" :> FieldStr(Addr(10, 126, 126, 0)))
                                      @@ ("ip" :> FieldStr(Addr(10, 126, 126, 1))))],
      [ok |-> TRUE,  json |-> JsonObj("ipv4" :> FieldStr(Addr(8, 8, 8, 8)))],
      [ok |-> TRUE,  json |-> JsonObj("ipv4" :> FieldNum)],
      [ok |-> TRUE,  json |-> JsonObj("virtual_ip" :> FieldStr(AddrCidr(10, 126, 126, 255)))],
      [ok |-> TRUE,  json |-> JsonObj("ip" :> FieldStr([parts |-> <<10, 126, NaN, 1>>,
                                                        cidr |-> FALSE]))] }

\* ------------------------------------------------------------ validation
\* A string is a sequence of characters; a character is named by a token.
\* "CJK" is one three-byte ideograph, "TAB" and "NL" are whitespace.
IsWhitespace(c) == c \in {" ", "TAB", "NL", "CR"}

IsAlphabetic(c) == c \in {"a", "b", "CJK"}

IsNumeric(c) == c \in {"1", "2"}

IsAlphanumeric(c) == IsAlphabetic(c) \/ IsNumeric(c)

Utf8Len(c) == IF c = "CJK" THEN 3 ELSE 1

RECURSIVE TrimStart(_)
TrimStart(s) ==
    IF s # <<>> /\ IsWhitespace(Head(s)) THEN TrimStart(Tail(s)) ELSE s

RECURSIVE TrimEnd(_)
TrimEnd(s) ==
    IF s # <<>> /\ IsWhitespace(s[Len(s)])
    THEN TrimEnd(SubSeq(s, 1, Len(s) - 1))
    ELSE s

Trim(s) == TrimEnd(TrimStart(s))

\* str::len(): the length in bytes
RECURSIVE ByteLen(_)
ByteLen(s) == IF s = <<>> THEN 0 ELSE Utf8Len(Head(s)) + ByteLen(Tail(s))

\* n copies of character c
Rep(c, n) == [i \in 1..n |-> c]

validate_input_untrimmed(input) ==
    IF input = <<>> THEN "InvalidInput" ELSE "Ok"

\* each validator returns "Ok" or the error it raises
validate_input(input) ==
    IF Trim(input) = <<>> THEN "InvalidInput" ELSE "Ok"

validate_lobby_name(name) ==
    LET trimmed == Trim(name)
        char_count == Len(trimmed)
    IN  IF char_count < MinNameLen THEN "InvalidInput"
        ELSE IF char_count > MaxNameLen THEN "InvalidInput"
        ELSE IF ~(\E i \in 1..char_count : IsAlphanumeric(trimmed[i]))
             THEN "InvalidInput"
        ELSE IF ~(\A i \in 1..char_count :
                    \/ IsAlphanumeric(trimmed[i])
                    \/ trimmed[i] \in {"_", "-", " "}
                    \/ IsWhitespace(trimmed[i]))
             THEN "InvalidInput"
        ELSE "Ok"

validate_password(password) ==
    LET trimmed == Trim(password)
    IN  IF ByteLen(trimmed) < MinPasswordLen THEN "InvalidInput"
        ELSE IF ByteLen(trimmed) > MaxPasswordLen THEN "InvalidInput"
        ELSE IF ~(\E i \in 1..Len(trimmed) : IsAlphabetic(trimmed[i]))
             THEN "InvalidInput"
        ELSE IF ~(\E i \in 1..Len(trimmed) : IsNumeric(trimmed[i]))
             THEN "InvalidInput"
        ELSE "Ok"

\* the four checks of create_lobby / join_lobby, in the order of the code
ValidateArgs(a) ==
    IF validate_lobby_name(a.name) # "Ok" THEN "InvalidInput"
    ELSE IF validate_password(a.password) # "Ok" THEN "InvalidInput"
    ELSE IF validate_input(a.player_name) # "Ok" THEN "InvalidInput"
    ELSE validate_input(a.server_node)

\* the inputs the commands are called with: one that passes every check and
\* inputs that fail one of them
GoodArgs ==
    [name |-> <<"a", "b", " ", "1">>, password |-> Rep("a", 4) \o Rep("1", 4),
     player_name |-> <<"a", "b">>, server_node |-> <<"a", "1">>]

BadNames == { <<"a", "b", "1">>, <<"a", "b", "!", "1">> }

BadPasswords == { Rep("a", 8), Rep("a", 3) \o Rep("1", 4) }

BadFreeTexts == { <<" ", "TAB">> }

CmdArgs ==
    {GoodArgs}
    \cup {[GoodArgs EXCEPT !.name = n] : n \in BadNames}
    \cup {[GoodArgs EXCEPT !.password = w] : w \in BadPasswords}
    \cup {[GoodArgs EXCEPT !.player_name = t] : t \in BadFreeTexts}
    \cup {[GoodArgs EXCEPT !.server_node = t] : t \in BadFreeTexts}

NoArgs == [name |-> <<>>, password |-> <<>>, player_name |-> <<>>, server_node |-> <<>>]

\* ------------------------------------------------------------------ state
\* peers on the broadcast domain other than the local node
PeerIds == {"p1"}

\* P2PSignalingService::new(47777)
BasePort == 47777

VARIABLES
    \* NetworkService
    status,                \* ConnectionStatus: [t, ip, msg]
    virtual_ip,            \* Option<String>, NoIp for None
    is_running,
    easytier_process,      \* Option<Child>: "None" or "Some"
    instance_config_dir,   \* Option<PathBuf>: "None" or "Some"
    \* the operating system
    childRunning,          \* the process of the stored Child has not exited
    newChild,              \* the process start_easytier spawned and has not stored yet
    \* the tasks start_easytier spawned that have not ended
    outReaders,            \* monitor_stdout tasks
    errReaders,            \* monitor_stderr tasks
    monitors,              \* monitor_process tasks
    \* LobbyManager
    current_lobby,         \* Option<Lobby>: [some, name, virtual_ip, creator_virtual_ip]
    players,               \* the roster: a set of Player records with distinct ids
    \* P2PSignalingService
    socket,                \* Option<UdpSocket>: 0 for None, else the bound port
    local_player_id,       \* Option<String>: FALSE for None
    peers,                 \* ids of the PeerInfo records
    receivers,             \* receive loops spawned; each keeps its port open
    sent,                  \* broadcasts sent since the last command returned
    \* AppCore
    appState,
    appExited,
    \* the command in progress
    cmdPc,
    cmdOp,
    cmdArgs,
    cmdRes,
    startRes,              \* what start_easytier returned: [kind, why, ip]
    stopFrom,              \* who called stop_easytier
    subFailed,             \* some sub-step of the running command failed
    startInvoked           \* the running command has called start_easytier

supVars == <<status, virtual_ip, is_running, easytier_process, instance_config_dir>>

osVars == <<childRunning, newChild>>

taskVars == <<outReaders, errReaders, monitors>>

lobbyVars == <<current_lobby, players>>

p2pVars == <<socket, local_player_id, peers, receivers, sent>>

appVars == <<appState, appExited>>

cmdVars == <<cmdPc, cmdOp, cmdArgs, cmdRes, startRes, stopFrom, subFailed, startInvoked>>

VARIABLES
    \* P2PSignalingService, as the discovery specification sees it
    local_id,              \* Option<String> of local_player_id: NoId for None
    peer_map,              \* HashMap<String, PeerInfo>: id -> [addr, age]
    recvLoops,             \* the position of each receive loop in handle_message_static
    sweep,                 \* the heartbeat task: [pc, timeout_players]
    emitted,               \* the frontend events the last step emitted
    wire,                  \* the datagrams the last step handed to the socket
    \* what has happened to each peer id so far
    announced,             \* "player-joined" was emitted since the record was last absent
    lastEvent,             \* the last event emitted for the id
    silent                 \* the record once went more than 90 seconds without a refresh

discVars == <<local_id, peer_map, recvLoops, sweep, emitted, wire, announced, lastEvent, silent>>

VARIABLES
    \* the locals of start_easytier's wait loop, in milliseconds
    elapsed,            \* start_time.elapsed()
    since_check,        \* last_check_time.elapsed()
    cli_check_count

waitVars == <<elapsed, since_check, cli_check_count>>

VARIABLES
    actual_port,        \* P2PSignalingService.actual_port
    \* the tasks of start_discovery_broadcast: b -> [count, slept], slept in
    \* seconds
    broadcasters,
    announcements,      \* PlayerDiscovery broadcasts sent since the last start()
    gap                 \* seconds since the last of them, or since start()

bcastVars == <<broadcasters, announcements, gap>>

VARIABLES
    \* two services on one broadcast domain: the port each has bound (0
    \* before start), the directory of each, the datagrams under way
    lan

vars ==
    <<supVars, osVars, taskVars, lobbyVars, p2pVars, appVars, cmdVars, discVars, waitVars,
      actual_port, bcastVars, lan>>

Disconnected == [t |-> "Disconnected", ip |-> NoIp, msg |-> ""]

Connecting == [t |-> "Connecting", ip |-> NoIp, msg |-> ""]

Connected(ip) == [t |-> "Connected", ip |-> ip, msg |-> ""]

Error(msg) == [t |-> "Error", ip |-> NoIp, msg |-> msg]

NoLobby == [some |-> FALSE, name |-> <<>>, virtual_ip |-> NoIp, creator_virtual_ip |-> NoIp]

\* Lobby::new; the id and the creation time are not modelled
NewLobby(name, ip, creator) ==
    [some |-> TRUE, name |-> name, virtual_ip |-> ip, creator_virtual_ip |-> creator]

\* Player::new; the roster holds at most one player made here at a time, so
\* its fresh id is one fixed value
NewPlayer(name) ==
    [id |-> "local", name |-> name, mic_enabled |-> FALSE, is_muted |-> FALSE]

\* the address every node takes for the signaling host
CreatorVirtualIp == Addr(10, 126, 126, 1)

NoRes == [kind |-> "none", why |-> "", ip |-> NoIp]

StartOk(ip) == [kind |-> "Ok", why |-> "", ip |-> ip]

StartErr(why) == [kind |-> "Err", why |-> why, ip |-> NoIp]

\* daemon processes that are running
NumDaemons ==
    (IF easytier_process = "Some" /\ childRunning THEN 1 ELSE 0)
    + (IF newChild = "running" THEN 1 ELSE 0)

\* The player ids a node can carry: the frontend supplies the local one, and
\* a datagram names its sender's.
NodeIds == {"n1", "n2"}

NoId == "none"

\* The source endpoints datagrams arrive from.
Ips == {"ip1", "ip2"}

\* SocketAddr
SocketAddr(ip, port) == [ip |-> ip, port |-> port]

\* the port a sender's datagrams leave from, which is not a listening port
SendPort == BasePort + 1000

\* the ports a payload names
PayloadPorts == {BasePort, BasePort + 1}

\* a variant that keeps the port the datagram came from
set_port_kept(addr, port) == addr

\* SocketAddr::set_port
set_port(addr, port) == [addr EXCEPT !.port = port]

Endpoints == {SocketAddr(ip, port) : ip \in Ips, port \in PayloadPorts}

NoAddr == SocketAddr("none", 0)

\* The receive loops that can exist: one per successful start.
Loops == 1..MaxTasks

\* A receive loop waiting in recv_from.
IdleLoop == [pc |-> "recv", player_id |-> NoId, addr |-> NoAddr, already_exists |-> FALSE]

\* The heartbeat task asleep between two sweeps.
SweepAsleep == [pc |-> "sleep", timeout_players |-> {}]

\* start_discovery_broadcast: let mut count = 0
NewBroadcaster == [count |-> 0, slept |-> 0]

\* HashMap::new().
NoPeers == [p \in {} |-> [addr |-> NoAddr, age |-> 0]]

\* P2PSignalingService::new as the discovery specification sees it.
DiscIdle ==
    /\ local_id = NoId
    /\ peer_map = NoPeers
    /\ recvLoops = [r \in Loops |-> IdleLoop]
    /\ sweep = SweepAsleep
    /\ emitted = {}
    /\ wire = <<>>
    /\ announced = [p \in NodeIds |-> FALSE]
    /\ lastEvent = [p \in NodeIds |-> "none"]
    /\ silent = [p \in NodeIds |-> FALSE]

\* the state after construction, but for the arguments of the call in progress
InitButArgs ==
    /\ lan = [port |-> [n \in NodeIds |-> 0], dir |-> [n \in NodeIds |-> << >>], air |-> {}]
    /\ status = Disconnected
    /\ virtual_ip = NoIp
    /\ is_running = FALSE
    /\ easytier_process = "None"
    /\ instance_config_dir = "None"
    /\ childRunning = FALSE
    /\ newChild = "none"
    /\ outReaders = 0
    /\ errReaders = 0
    /\ monitors = 0
    /\ current_lobby = NoLobby
    /\ players = {}
    /\ socket = 0
    /\ local_player_id = FALSE
    /\ peers = {}
    /\ receivers = 0
    /\ sent = <<>>
    /\ appState = "Idle"
    /\ appExited = FALSE
    /\ cmdPc = "idle"
    /\ cmdOp = "none"
    /\ cmdRes = "none"
    /\ startRes = NoRes
    /\ stopFrom = "none"
    /\ subFailed = FALSE
    /\ startInvoked = FALSE
    /\ DiscIdle
    /\ elapsed = 0
    /\ since_check = 0
    /\ cli_check_count = 0
    /\ actual_port = BasePort
    /\ broadcasters = [b \in Loops |-> NewBroadcaster]
    /\ announcements = 0
    /\ gap = 0

Init == InitButArgs /\ cmdArgs = NoArgs

\* ------------------------------------------------- LobbyManager: entry
\* a variant that lets a second session be opened over the first
AlreadyInLobbyUnchecked(lobby) == FALSE

\* the first test of create_lobby / join_lobby: a session exists
AlreadyInLobby(lobby) == lobby.some

\* a variant that starts the tunnel without validating the input
LobbyEntryUnvalidated(lobby, args) ==
    IF AlreadyInLobby(lobby) THEN "AlreadyInLobby" ELSE "start"

\* create_lobby / join_lobby up to the call of start_easytier: "start" when
\* the tunnel is to be started, else the error returned
LobbyEntry(lobby, args) ==
    IF AlreadyInLobby(lobby) THEN "AlreadyInLobby"
    ELSE IF ValidateArgs(args) # "Ok" THEN "InvalidInput"
    ELSE "start"

\* the create_lobby and join_lobby commands, up to the first await inside
\* start_easytier
CmdCreateOrJoin(op, args) ==
    /\ cmdPc = "idle"
    /\ ~appExited
    /\ outReaders < MaxTasks /\ errReaders < MaxTasks /\ monitors < MaxTasks
    /\ op = "join" => receivers < MaxTasks
    /\ cmdOp' = op
    /\ cmdArgs' = args
    /\ startRes' = NoRes
    /\ subFailed' = FALSE
    /\ stopFrom' = "none"
    /\ LET r == LobbyEntry(current_lobby, args)
       IN  IF r = "start"
           THEN /\ startInvoked' = TRUE
                /\ cmdPc' = "start_check"
                /\ cmdRes' = "none"
                /\ appState' = "Connecting"
           ELSE /\ startInvoked' = FALSE
                /\ cmdPc' = "done"
                /\ cmdRes' = r
                /\ appState' = "Error"
    /\ UNCHANGED <<discVars, waitVars, bcastVars, lan, actual_port, supVars, osVars, taskVars, lobbyVars, p2pVars, appExited>>

CmdCreate == \E args \in CmdArgs : CmdCreateOrJoin("create", args)

CmdJoin == \E args \in CmdArgs : CmdCreateOrJoin("join", args)

\* ------------------------------------------------ NetworkService: start
\* the is_running test at the head of start_easytier
StartRefused(running) == running

\* start_easytier lines 184-199
StartCheck ==
    /\ cmdPc = "start_check"
    /\ IF StartRefused(is_running)
       THEN /\ startRes' = StartErr("already_running")
            /\ cmdPc' = "after_start"
            /\ UNCHANGED status
       ELSE /\ status' = Connecting
            /\ cmdPc' = "start_spawn"
            /\ UNCHANGED startRes
    /\ UNCHANGED <<discVars, waitVars, bcastVars, lan, actual_port, virtual_ip, is_running, easytier_process, instance_config_dir,
                   osVars, taskVars, lobbyVars, p2pVars, appVars,
                   cmdOp, cmdArgs, cmdRes, stopFrom, subFailed, startInvoked>>

\* lines 201-330, a failure before or at spawn: the path of the binary, the
\* working directory, the config directory or the spawn itself
StartSpawnFails ==
    /\ cmdPc = "start_spawn"
    /\ startRes' = StartErr("spawn")
    /\ cmdPc' = "after_start"
    /\ UNCHANGED <<discVars, waitVars, bcastVars, lan, actual_port, supVars, osVars, taskVars, lobbyVars, p2pVars, appVars,
                   cmdOp, cmdArgs, cmdRes, stopFrom, subFailed, startInvoked>>

\* line 327: the daemon is running from here on
StartSpawn ==
    /\ cmdPc = "start_spawn"
    /\ newChild' = "running"
    /\ cmdPc' = "start_save"
    /\ UNCHANGED <<discVars, waitVars, bcastVars, lan, actual_port, supVars, childRunning, taskVars, lobbyVars, p2pVars, appVars,
                   cmdOp, cmdArgs, cmdRes, startRes, stopFrom, subFailed, startInvoked>>

\* lines 341-376: the handle, the flag and the directory are stored and the
\* three tasks are spawned.  A handle that was still stored is dropped, which
\* kills its process (kill_on_drop).
StartSaveBody ==
    /\ cmdPc = "start_save"
    /\ easytier_process' = "Some"
    /\ childRunning' = (newChild = "running")
    /\ newChild' = "none"
    /\ is_running' = TRUE
    /\ instance_config_dir' = "Some"
    /\ outReaders' = outReaders + 1
    /\ errReaders' = errReaders + 1
    /\ monitors' = monitors + 1
    /\ cmdPc' = "loop_top"
    /\ UNCHANGED <<discVars, bcastVars, lan, actual_port, status, virtual_ip, lobbyVars, p2pVars, appVars,
                   cmdOp, cmdArgs, cmdRes, startRes, stopFrom, subFailed, startInvoked>>

StartSave == StartSaveBody /\ UNCHANGED waitVars

\* lines 385-391: the deadline has passed; stop_easytier is called
LoopTimeoutBody ==
    /\ cmdPc = "loop_top"
    /\ stopFrom' = "timeout"
    /\ cmdPc' = "stop_kill"
    /\ UNCHANGED <<discVars, bcastVars, lan, actual_port, supVars, osVars, taskVars, lobbyVars, p2pVars, appVars,
                   cmdOp, cmdArgs, cmdRes, startRes, subFailed, startInvoked>>

LoopTimeout == LoopTimeoutBody /\ UNCHANGED waitVars

\* lines 393-398: with the status Error, stop_easytier is called
LoopStatusBody ==
    /\ cmdPc = "loop_top"
    /\ IF status.t = "Error"
       THEN /\ stopFrom' = status.msg
            /\ cmdPc' = "stop_kill"
       ELSE /\ cmdPc' = "loop_ip"
            /\ UNCHANGED stopFrom
    /\ UNCHANGED <<discVars, bcastVars, lan, actual_port, supVars, osVars, taskVars, lobbyVars, p2pVars, appVars,
                   cmdOp, cmdArgs, cmdRes, startRes, subFailed, startInvoked>>

LoopStatus == LoopStatusBody /\ UNCHANGED waitVars

\* lines 400-406: the address a reader has recorded is returned
LoopIp ==
    /\ cmdPc = "loop_ip"
    /\ IF virtual_ip # NoIp
       THEN /\ status' = Connected(virtual_ip)
            /\ startRes' = StartOk(virtual_ip)
            /\ cmdPc' = "after_start"
       ELSE /\ cmdPc' = "loop_cli"
            /\ UNCHANGED <<status, startRes>>
    /\ UNCHANGED <<discVars, waitVars, bcastVars, lan, actual_port, virtual_ip, is_running, easytier_process, instance_config_dir,
                   osVars, taskVars, lobbyVars, p2pVars, appVars,
                   cmdOp, cmdArgs, cmdRes, stopFrom, subFailed, startInvoked>>

\* lines 409-421: three seconds have passed since the last query, which is
\* at most the tenth; an address found in the answer is recorded and returned
LoopCliBody ==
    /\ cmdPc = "loop_cli"
    /\ \E answer \in CliAnswers :
         LET found == query_virtual_ip_from_cli(answer)
         IN  IF found # NoIp
             THEN /\ virtual_ip' = found
                  /\ status' = Connected(found)
                  /\ startRes' = StartOk(found)
                  /\ cmdPc' = "after_start"
             ELSE /\ cmdPc' = "loop_running"
                  /\ UNCHANGED <<virtual_ip, status, startRes>>
    /\ UNCHANGED <<discVars, bcastVars, lan, actual_port, is_running, easytier_process, instance_config_dir,
                   osVars, taskVars, lobbyVars, p2pVars, appVars,
                   cmdOp, cmdArgs, cmdRes, stopFrom, subFailed, startInvoked>>

LoopCli == LoopCliBody /\ UNCHANGED waitVars

\* no query in this round
LoopNoCliBody ==
    /\ cmdPc = "loop_cli"
    /\ cmdPc' = "loop_running"
    /\ UNCHANGED <<discVars, bcastVars, lan, actual_port, supVars, osVars, taskVars, lobbyVars, p2pVars, appVars,
                   cmdOp, cmdArgs, cmdRes, startRes, stopFrom, subFailed, startInvoked>>

LoopNoCli == LoopNoCliBody /\ UNCHANGED waitVars

\* lines 423-437: with the flag down the call returns at once
LoopRunningBody ==
    /\ cmdPc = "loop_running"
    /\ IF ~is_running
       THEN /\ startRes' = StartErr(IF status.t = "Error" THEN status.msg ELSE "terminated")
            /\ cmdPc' = "after_start"
       ELSE /\ cmdPc' = "loop_top"
            /\ UNCHANGED startRes
    /\ UNCHANGED <<discVars, bcastVars, lan, actual_port, supVars, osVars, taskVars, lobbyVars, p2pVars, appVars,
                   cmdOp, cmdArgs, cmdRes, stopFrom, subFailed, startInvoked>>

LoopRunning == LoopRunningBody /\ UNCHANGED waitVars

\* ------------------------------------------------- NetworkService: stop
\* a variant that returns the failure of a sub-step to the caller
StopResultPropagated(failed) == IF failed THEN "Err" ELSE "Ok"

\* stop_easytier has one return, Ok(()): a failed sub-step is logged
StopResult(failed) == "Ok"

\* lines 773-965: the handle is taken under the process lock, the child is
\* killed and waited for (kill() fails on a child that has exited already);
\* then the CLI "stop" of the instance and the removal of the virtual adapters
StopKill ==
    /\ cmdPc = "stop_kill"
    /\ \E killOk, cleanupOk \in BOOLEAN :
         /\ ~killOk => (easytier_process = "Some" /\ ~childRunning)
         /\ subFailed' = (subFailed \/ ~killOk \/ ~cleanupOk)
    /\ easytier_process' = "None"
    /\ childRunning' = FALSE
    /\ cmdPc' = "stop_reset"
    /\ UNCHANGED <<discVars, waitVars, bcastVars, lan, actual_port, status, virtual_ip, is_running, instance_config_dir, newChild,
                   taskVars, lobbyVars, p2pVars, appVars,
                   cmdOp, cmdArgs, cmdRes, startRes, stopFrom, startInvoked>>

\* lines 968-970
StopReset ==
    /\ cmdPc = "stop_reset"
    /\ is_running' = FALSE
    /\ status' = Disconnected
    /\ virtual_ip' = NoIp
    /\ cmdPc' = "stop_dir"
    /\ UNCHANGED <<discVars, waitVars, bcastVars, lan, actual_port, easytier_process, instance_config_dir,
                   osVars, taskVars, lobbyVars, p2pVars, appVars,
                   cmdOp, cmdArgs, cmdRes, startRes, stopFrom, subFailed, startInvoked>>

\* lines 972-998: the directory record is taken and the directory removed,
\* in at most three attempts; then the call returns
StopDir ==
    /\ cmdPc = "stop_dir"
    /\ instance_config_dir' = "None"
    /\ IF instance_config_dir = "Some"
       THEN \E ok \in BOOLEAN : subFailed' = (subFailed \/ ~ok)
       ELSE UNCHANGED subFailed
    /\ cmdPc' = "stop_ret"
    /\ UNCHANGED <<discVars, waitVars, bcastVars, lan, actual_port, status, virtual_ip, is_running, easytier_process,
                   osVars, taskVars, lobbyVars, p2pVars, appVars,
                   cmdOp, cmdArgs, cmdRes, startRes, stopFrom, startInvoked>>

\* stop_easytier has returned to start_easytier (lines 387-390, 396-397)
StopReturnToStart ==
    /\ cmdPc = "stop_ret"
    /\ stopFrom \in {"timeout", "tun", "wait"}
    /\ startRes' = IF StopResult(subFailed) = "Ok" THEN StartErr(stopFrom)
                   ELSE StartErr("stop")
    /\ cmdPc' = "after_start"
    /\ stopFrom' = "none"
    /\ UNCHANGED <<discVars, waitVars, bcastVars, lan, actual_port, supVars, osVars, taskVars, lobbyVars, p2pVars, appVars,
                   cmdOp, cmdArgs, cmdRes, subFailed, startInvoked>>

\* leave_lobby lines 426-434 after stop_easytier: "Ok" and the cleared
\* session, or the error of stop_easytier and the session as it was
LeaveAfterStop(stopRes, lobby, roster) ==
    IF stopRes = "Ok"
    THEN [res |-> "Ok", lobby |-> NoLobby, players |-> {}]
    ELSE [res |-> "NetworkError", lobby |-> lobby, players |-> roster]

\* stop_easytier has returned to leave_lobby, called by the leave command
StopReturnToLeave ==
    /\ cmdPc = "stop_ret"
    /\ stopFrom = "leave"
    /\ LET r == LeaveAfterStop(StopResult(subFailed), current_lobby, players)
       IN  /\ current_lobby' = r.lobby
           /\ players' = r.players
           /\ cmdRes' = r.res
           /\ appState' = IF r.res = "Ok" THEN "Idle" ELSE appState
    /\ cmdPc' = "done"
    /\ stopFrom' = "none"
    /\ UNCHANGED <<discVars, waitVars, bcastVars, lan, actual_port, supVars, osVars, taskVars, p2pVars, appExited,
                   cmdOp, cmdArgs, startRes, subFailed, startInvoked>>

\* ... called by exit_app, which then exits
StopReturnToExit ==
    /\ cmdPc = "stop_ret"
    /\ stopFrom = "exit"
    /\ LET r == LeaveAfterStop(StopResult(subFailed), current_lobby, players)
       IN  /\ current_lobby' = r.lobby
           /\ players' = r.players
           /\ cmdRes' = r.res
    /\ appExited' = TRUE
    /\ cmdPc' = "done"
    /\ stopFrom' = "none"
    /\ UNCHANGED <<discVars, waitVars, bcastVars, lan, actual_port, supVars, osVars, taskVars, p2pVars, appState,
                   cmdOp, cmdArgs, startRes, subFailed, startInvoked>>

\* ... called by AppCore::shutdown (lines 189-210), which cleans the hosts
\* file and then stops the network service itself
StopReturnToShutdownLeave ==
    /\ cmdPc = "stop_ret"
    /\ stopFrom = "shutdown_leave"
    /\ LET r == LeaveAfterStop(StopResult(subFailed), current_lobby, players)
       IN  /\ current_lobby' = r.lobby
           /\ players' = r.players
    /\ \E hostsOk \in BOOLEAN : subFailed' = (subFailed \/ ~hostsOk)
    /\ stopFrom' = "shutdown_final"
    /\ cmdPc' = "stop_kill"
    /\ UNCHANGED <<discVars, waitVars, bcastVars, lan, actual_port, supVars, osVars, taskVars, p2pVars, appVars,
                   cmdOp, cmdArgs, cmdRes, startRes, startInvoked>>

\* AppCore::shutdown lines 210-222: the configuration is saved and the
\* application exits
StopReturnToShutdown ==
    /\ cmdPc = "stop_ret"
    /\ stopFrom = "shutdown_final"
    /\ \E saveOk \in BOOLEAN : subFailed' = (subFailed \/ ~saveOk)
    /\ cmdRes' = "Ok"
    /\ appExited' = TRUE
    /\ cmdPc' = "done"
    /\ stopFrom' = "none"
    /\ UNCHANGED <<discVars, waitVars, bcastVars, lan, actual_port, supVars, osVars, taskVars, lobbyVars, p2pVars, appState,
                   cmdOp, cmdArgs, startRes, startInvoked>>

\* ------------------------------------------------- P2PSignalingService
\* broadcast(): the datagram goes out on the socket
Send(log, m) == Append(log, m)

\* stop(): the PlayerLeft broadcast needs the local id and the socket
P2PStopSent(log, id, sock, bcastOk) ==
    IF id /\ sock # 0 /\ bcastOk THEN Send(log, "PlayerLeft") ELSE log

\* line 147: actual_port < self.listen_port + 100
PortTries == 100

\* a variant that gives up at the first port in use
BindLoopOnce(port, occupied) ==
    IF port \notin occupied THEN port ELSE 0

\* start() lines 136-160: the bind loop from the given port upward, where the
\* ports of `occupied` cannot be bound; 0 when the loop returns the error
RECURSIVE BindLoop(_, _)
BindLoop(port, occupied) ==
    IF port \notin occupied THEN port
    ELSE IF port < BasePort + PortTries THEN BindLoop(port + 1, occupied)
    ELSE 0

\* start() on a host where nothing else uses the range: every receive loop
\* spawned before still holds the port it was given
BindPort(loops) == BindLoop(BasePort, {BasePort + k : k \in 0..(loops - 1)})

\* ------------------------------------------ the commands, after the start
\* create_lobby / join_lobby lines 312-330 and the rest of the command
AfterStartErr ==
    /\ cmdPc = "after_start"
    /\ startRes.kind = "Err"
    /\ cmdRes' = "NetworkError"
    /\ appState' = "Error"
    /\ cmdPc' = "done"
    /\ UNCHANGED <<discVars, waitVars, bcastVars, lan, actual_port, supVars, osVars, taskVars, lobbyVars, p2pVars, appExited,
                   cmdOp, cmdArgs, startRes, stopFrom, subFailed, startInvoked>>

AfterStartCreate ==
    /\ cmdPc = "after_start"
    /\ startRes.kind = "Ok"
    /\ cmdOp = "create"
    /\ current_lobby' = NewLobby(cmdArgs.name, startRes.ip, CreatorVirtualIp)
    /\ players' = players \cup {NewPlayer(cmdArgs.player_name)}
    /\ cmdRes' = "Ok"
    /\ appState' = "InLobby"
    /\ cmdPc' = "done"
    /\ UNCHANGED <<discVars, waitVars, bcastVars, lan, actual_port, supVars, osVars, taskVars, p2pVars, appExited,
                   cmdOp, cmdArgs, startRes, stopFrom, subFailed, startInvoked>>

\* the join command also starts the discovery service (lines 200-215); a
\* failure of that start is returned, the session stays
AfterStartJoin ==
    /\ cmdPc = "after_start"
    /\ startRes.kind = "Ok"
    /\ cmdOp = "join"
    /\ current_lobby' = NewLobby(cmdArgs.name, startRes.ip, CreatorVirtualIp)
    /\ players' = players \cup {NewPlayer(cmdArgs.player_name)}
    /\ local_player_id' = TRUE
    /\ \E bindOk \in BOOLEAN :
         IF bindOk
         THEN /\ socket' = BindPort(receivers)
              /\ actual_port' = BindPort(receivers)
              /\ receivers' = receivers + 1
              /\ cmdRes' = "Ok"
              /\ appState' = "InLobby"
         ELSE /\ cmdRes' = "P2PStartError"
              /\ appState' = "Error"
              /\ UNCHANGED <<socket, actual_port, receivers>>
    /\ cmdPc' = "done"
    /\ UNCHANGED <<discVars, waitVars, bcastVars, lan, supVars, osVars, taskVars, peers, sent, appExited,
                   cmdOp, cmdArgs, startRes, stopFrom, subFailed, startInvoked>>

\* the leave command: the discovery service is stopped (the socket slot is
\* emptied, the directory cleared), then leave_lobby is called
CmdLeave ==
    /\ cmdPc = "idle"
    /\ ~appExited
    /\ cmdOp' = "leave"
    /\ \E bcastOk \in BOOLEAN :
         /\ bcastOk \/ (local_player_id /\ socket # 0)
         /\ sent' = P2PStopSent(sent, local_player_id, socket, bcastOk)
         /\ subFailed' = ~bcastOk
    /\ socket' = 0
    /\ peers' = {}
    /\ IF current_lobby.some
       THEN /\ stopFrom' = "leave"
            /\ cmdPc' = "stop_kill"
            /\ cmdRes' = "none"
       ELSE /\ stopFrom' = "none"
            /\ cmdPc' = "done"
            /\ cmdRes' = "NotInLobby"
    /\ UNCHANGED <<discVars, waitVars, bcastVars, lan, actual_port, supVars, osVars, taskVars, lobbyVars, local_player_id, receivers,
                   appVars, cmdArgs, startRes, startInvoked>>

\* exit_app: leave_lobby if there is a session, then the application exits
CmdExitApp ==
    /\ cmdPc = "idle"
    /\ ~appExited
    /\ cmdOp' = "exit"
    /\ subFailed' = FALSE
    /\ cmdRes' = "none"
    /\ IF current_lobby.some
       THEN /\ stopFrom' = "exit"
            /\ cmdPc' = "stop_kill"
            /\ UNCHANGED appExited
       ELSE /\ stopFrom' = "none"
            /\ cmdPc' = "done"
            /\ appExited' = TRUE
    /\ UNCHANGED <<discVars, waitVars, bcastVars, lan, actual_port, supVars, osVars, taskVars, lobbyVars, p2pVars, appState,
                   cmdArgs, startRes, startInvoked>>

\* AppCore::shutdown, run when the window is closed
CmdShutdown ==
    /\ cmdPc = "idle"
    /\ ~appExited
    /\ cmdOp' = "shutdown"
    /\ appState' = "Idle"
    /\ \E bcastOk \in BOOLEAN :
         /\ bcastOk \/ (local_player_id /\ socket # 0)
         /\ sent' = P2PStopSent(sent, local_player_id, socket, bcastOk)
         /\ subFailed' = ~bcastOk
    /\ socket' = 0
    /\ peers' = {}
    /\ cmdRes' = "none"
    /\ stopFrom' = IF current_lobby.some THEN "shutdown_leave" ELSE "shutdown_final"
    /\ cmdPc' = "stop_kill"
    /\ UNCHANGED <<discVars, waitVars, bcastVars, lan, actual_port, supVars, osVars, taskVars, lobbyVars, local_player_id, receivers,
                   appExited, cmdArgs, startRes, startInvoked>>

\* the command has returned to the frontend
CmdReturn ==
    /\ cmdPc = "done"
    /\ ~appExited
    /\ cmdPc' = "idle"
    /\ cmdOp' = "none"
    /\ cmdArgs' = NoArgs
    /\ cmdRes' = "none"
    /\ startRes' = NoRes
    /\ subFailed' = FALSE
    /\ startInvoked' = FALSE
    /\ sent' = <<>>
    /\ UNCHANGED <<discVars, waitVars, bcastVars, lan, actual_port, supVars, osVars, taskVars, lobbyVars, socket, local_player_id,
                   peers, receivers, appVars, stopFrom>>

\* ------------------------------------------------------ background tasks
\* the tasks run until the application exits; the return of a command is
\* observed at once, the tasks take their next step after it
TasksRun == ~appExited /\ cmdPc # "done"

\* monitor_stdout lines 544-578: a line is read and an accepted address is
\* recorded.  Lines already in the pipe are still read after the daemon exited.
ReadStdout(lines) ==
    /\ TasksRun
    /\ outReaders > 0
    /\ \E line \in lines :
         /\ StdoutAccepts(line) # NoIp
         /\ virtual_ip' = StdoutAccepts(line)
         /\ status' = Connected(StdoutAccepts(line))
    /\ UNCHANGED <<discVars, waitVars, bcastVars, lan, actual_port, is_running, easytier_process, instance_config_dir,
                   osVars, taskVars, lobbyVars, p2pVars, appVars, cmdVars>>

StdoutLine == ReadStdout(StdoutLines)

\* readers whose daemon is running: only the stored child can be
LiveReaders == IF easytier_process = "Some" /\ childRunning THEN 1 ELSE 0

\* the pipe of an exited daemon is drained: its reader ends
StdoutEof ==
    /\ TasksRun
    /\ outReaders > LiveReaders
    /\ outReaders' = outReaders - 1
    /\ UNCHANGED <<discVars, waitVars, bcastVars, lan, actual_port, supVars, osVars, errReaders, monitors, lobbyVars, p2pVars,
                   appVars, cmdVars>>

\* monitor_stderr lines 604-613: a line reporting that the adapter could not
\* be created
StderrFatal ==
    /\ TasksRun
    /\ errReaders > 0
    /\ is_running' = FALSE
    /\ status' = Error("tun")
    /\ UNCHANGED <<discVars, waitVars, bcastVars, lan, actual_port, virtual_ip, easytier_process, instance_config_dir,
                   osVars, taskVars, lobbyVars, p2pVars, appVars, cmdVars>>

StderrEof ==
    /\ TasksRun
    /\ errReaders > LiveReaders
    /\ errReaders' = errReaders - 1
    /\ UNCHANGED <<discVars, waitVars, bcastVars, lan, actual_port, supVars, osVars, outReaders, monitors, lobbyVars, p2pVars,
                   appVars, cmdVars>>

\* the daemon exits by itself
DaemonExit ==
    /\ TasksRun
    /\ \/ /\ easytier_process = "Some" /\ childRunning
          /\ childRunning' = FALSE
          /\ UNCHANGED newChild
       \/ /\ newChild = "running"
          /\ newChild' = "exited"
          /\ UNCHANGED childRunning
    /\ UNCHANGED <<discVars, waitVars, bcastVars, lan, actual_port, supVars, taskVars, lobbyVars, p2pVars, appVars, cmdVars>>

\* monitor_process lines 629-655, once a second, under the process lock:
\* with no handle stored the task ends
MonitorNoChild ==
    /\ TasksRun
    /\ monitors > 0
    /\ easytier_process = "None"
    /\ monitors' = monitors - 1
    /\ UNCHANGED <<discVars, waitVars, bcastVars, lan, actual_port, supVars, osVars, outReaders, errReaders, lobbyVars, p2pVars,
                   appVars, cmdVars>>

\* lines 635-641: the stored child has exited
MonitorSeesExit ==
    /\ TasksRun
    /\ monitors > 0
    /\ easytier_process = "Some"
    /\ ~childRunning
    /\ is_running' = FALSE
    /\ status' = Disconnected
    /\ virtual_ip' = NoIp
    /\ easytier_process' = "None"
    /\ monitors' = monitors - 1
    /\ UNCHANGED <<discVars, waitVars, bcastVars, lan, actual_port, instance_config_dir, osVars, outReaders, errReaders,
                   lobbyVars, p2pVars, appVars, cmdVars>>

\* lines 646-651: try_wait fails
MonitorWaitFails ==
    /\ TasksRun
    /\ monitors > 0
    /\ easytier_process = "Some"
    /\ is_running' = FALSE
    /\ status' = Error("wait")
    /\ monitors' = monitors - 1
    /\ UNCHANGED <<discVars, waitVars, bcastVars, lan, actual_port, virtual_ip, easytier_process, instance_config_dir,
                   osVars, outReaders, errReaders, lobbyVars, p2pVars, appVars, cmdVars>>

\* the receive loop, start_receiver lines 216-261 with handle_message_static:
\* a PlayerDiscovery of another node is answered, with a unicast reply that
\* is not a broadcast of this node, and its sender is recorded.  The loop
\* runs on its own clones of the socket.
RecvDiscovery(p) ==
    /\ TasksRun
    /\ receivers > 0
    /\ p \notin peers
    /\ peers' = peers \cup {p}
    /\ UNCHANGED <<discVars, waitVars, bcastVars, lan, actual_port, supVars, osVars, taskVars, lobbyVars, socket, local_player_id,
                   receivers, sent, appVars, cmdVars>>

\* handle_message_static lines 440-449
RecvPlayerLeft(p) ==
    /\ TasksRun
    /\ receivers > 0
    /\ p \in peers
    /\ peers' = peers \ {p}
    /\ UNCHANGED <<discVars, waitVars, bcastVars, lan, actual_port, supVars, osVars, taskVars, lobbyVars, socket, local_player_id,
                   receivers, sent, appVars, cmdVars>>

\* ---------------------------------------------------------- specification
Next ==
    \/ CmdCreate
    \/ CmdJoin
    \/ StartCheck
    \/ StartSpawnFails
    \/ StartSpawn
    \/ StartSave
    \/ LoopTimeout
    \/ LoopStatus
    \/ LoopIp
    \/ LoopCli
    \/ LoopNoCli
    \/ LoopRunning
    \/ StopKill
    \/ StopReset
    \/ StopDir
    \/ StopReturnToStart
    \/ StopReturnToLeave
    \/ StopReturnToExit
    \/ StopReturnToShutdownLeave
    \/ StopReturnToShutdown
    \/ AfterStartErr
    \/ AfterStartCreate
    \/ AfterStartJoin
    \/ CmdLeave
    \/ CmdExitApp
    \/ CmdShutdown
    \/ CmdReturn
    \/ StdoutLine
    \/ StdoutEof
    \/ StderrFatal
    \/ StderrEof
    \/ DaemonExit
    \/ MonitorNoChild
    \/ MonitorSeesExit
    \/ MonitorWaitFails
    \/ \E p \in PeerIds : RecvDiscovery(p)
    \/ \E p \in PeerIds : RecvPlayerLeft(p)

Spec == Init /\ [][Next]_vars

\* ------------------------------------------------------------------ claims
\* a create or join command begins
EntryStep == cmdPc = "idle" /\ cmdOp' \in {"create", "join"}

\* C1: a create or join issued while a session exists returns AlreadyInLobby,
\* does not call start_easytier, and leaves the session, the roster, the
\* supervisor and its tasks as they were; the one session slot keeps its
\* session.
C1_AlreadyInLobby ==
    [][(EntryStep /\ current_lobby.some)
         => /\ cmdPc' = "done"
            /\ cmdRes' = "AlreadyInLobby"
            /\ ~startInvoked'
            /\ UNCHANGED <<lobbyVars, supVars, osVars, taskVars>>]_vars

C1_Witness ==
    cmdPc = "done" /\ cmdRes = "AlreadyInLobby" /\ current_lobby.some /\ players # {}

\* C10: a create or join issued with no session and an input that fails
\* validation returns the validation error, does not call start_easytier, and
\* leaves the supervisor, the daemon, the tasks, the discovery service, the
\* (absent) session and the roster as they were.
C10_ValidationFirst ==
    [][(EntryStep /\ ~current_lobby.some /\ ValidateArgs(cmdArgs') # "Ok")
         => /\ cmdPc' = "done"
            /\ cmdRes' = "InvalidInput"
            /\ ~startInvoked'
            /\ ~current_lobby'.some
            /\ UNCHANGED <<lobbyVars, supVars, osVars, taskVars, p2pVars>>]_vars

C10_Witness ==
    /\ cmdPc = "done" /\ cmdRes = "InvalidInput" /\ ~startInvoked
    /\ ValidateArgs(cmdArgs) # "Ok" /\ ~current_lobby.some

\* C9: a failed sub-step of stop_easytier, leave_lobby or shutdown neither
\* skips the later steps nor fails the call: stop_easytier returns Ok with the
\* child handle and the directory record released, leave on an existing
\* session returns Ok with the session and the roster cleared, and shutdown
\* ends with Ok, no session and the application exited.
C9_TeardownCompletes ==
    [][/\ (cmdPc = "stop_dir" /\ cmdPc' = "stop_ret")
          => /\ StopResult(subFailed') = "Ok"
             /\ easytier_process' = "None"
             /\ instance_config_dir' = "None"
       /\ (cmdPc # "done" /\ cmdPc' = "done" /\ cmdOp' = "leave" /\ current_lobby.some)
          => (cmdRes' = "Ok" /\ ~current_lobby'.some /\ players' = {})
       /\ (cmdPc # "done" /\ cmdPc' = "done" /\ cmdOp' = "shutdown")
          => (cmdRes' = "Ok" /\ ~current_lobby'.some /\ players' = {} /\ appExited')]_vars

C9_Witness ==
    /\ cmdPc = "done" /\ cmdOp = "leave" /\ cmdRes = "Ok" /\ subFailed
    /\ ~current_lobby.some /\ players = {}

\* start_easytier returns
StartReturns == cmdPc # "after_start" /\ cmdPc' = "after_start"

\* stop_easytier returns
StopReturns == cmdPc = "stop_dir" /\ cmdPc' = "stop_ret"

\* C2: whenever start_easytier returns an error after it has set Connecting
\* (a timeout, a premature exit, a fatal stderr line, a failure before or at
\* the spawn), the teardown is complete: the status is Disconnected, no child
\* handle is stored and the directory record is released.
C2_ErrorAfterTeardown ==
    [][(StartReturns /\ startRes'.kind = "Err" /\ startRes'.why # "already_running")
         => /\ status' = Disconnected
            /\ easytier_process' = "None"
            /\ instance_config_dir' = "None"]_vars

\* C3: when stop_easytier returns, it returns Ok, the status is Disconnected,
\* is_running is false and the virtual address is None, whatever the readers
\* and the monitor did meanwhile.
C3_StopLandsDisconnected ==
    [][StopReturns
         => /\ StopResult(subFailed') = "Ok"
            /\ status' = Disconnected
            /\ ~is_running'
            /\ virtual_ip' = NoIp]_vars

\* C4: the status never moves from Error or Disconnected directly to
\* Connected, never from Connected to Error, and never from Connected(a) to
\* Connected(b) with b different from a.
C4_StateMachine ==
    [][/\ status.t \in {"Error", "Disconnected"} => status'.t # "Connected"
       /\ status.t = "Connected" => status'.t # "Error"
       /\ (status.t = "Connected" /\ status'.t = "Connected") => status' = status]_vars

\* C5: start_easytier spawns no daemon while one is running: two daemon
\* processes never exist at the same time.
C5_OneDaemon == NumDaemons <= 1

\* C6: an address start_easytier returns is a valid dotted-quad in a private
\* range, not loopback, with a last octet in 1..254.
C6_ReturnedAddress ==
    [][(StartReturns /\ startRes'.kind = "Ok")
         => /\ is_valid_ip(startRes'.ip)
            /\ is_private_ip(startRes'.ip)
            /\ ~is_loopback(startRes'.ip)
            /\ IsHostOctet(startRes'.ip)]_vars

\* C7: the leave command with no session returns NotInLobby and changes
\* nothing: not the session, the roster, the supervisor, the daemon, the
\* tasks, the discovery socket, the peer directory or the datagrams sent.
C7_LeaveWithoutSession ==
    [][(cmdPc = "idle" /\ cmdOp' = "leave" /\ ~current_lobby.some)
         => /\ cmdPc' = "done"
            /\ cmdRes' = "NotInLobby"
            /\ UNCHANGED <<lobbyVars, supVars, osVars, taskVars, p2pVars>>]_vars

\* C8: when leave on an existing session returns Ok, by the leave command or
\* by exit_app, and when shutdown returns, there is no session, the roster is
\* empty, the status is Disconnected, the discovery socket is released and
\* the peer directory is empty.
C8_TeardownReleasesAll ==
    [][(/\ cmdPc # "done" /\ cmdPc' = "done" /\ cmdRes' = "Ok"
        /\ \/ cmdOp' \in {"leave", "exit"} /\ current_lobby.some
           \/ cmdOp' = "shutdown")
         => /\ ~current_lobby'.some
            /\ players' = {}
            /\ status' = Disconnected
            /\ socket' = 0
            /\ peers' = {}]_vars

\* ======================================================================
\* The discovery specification: P2PSignalingService alone, with the join
\* and leave commands reduced to the start() and stop() they call.  Time
\* advances in steps of the sweep period.
\* ======================================================================

\* start_heartbeat: the sleep between two sweeps, in seconds
SweepPeriod == 30

\* start_heartbeat: timeout_duration, in seconds
PeerTimeout == 90

\* ages are kept up to the first value past the timeout
OldestAge == PeerTimeout + SweepPeriod

\* the variables of the other specifications, which discovery leaves alone
discFrame ==
    <<waitVars, supVars, osVars, taskVars, players, local_player_id, peers, sent, appVars,
      cmdPc, cmdOp, cmdArgs, startRes, stopFrom, subFailed, startInvoked>>

\* P2PMessage, the variants the directory depends on
DatagramTypes == {"PlayerDiscovery", "PlayerDiscoveryResponse", "Heartbeat", "PlayerLeft"}

\* a datagram a receive loop takes from recv_from: (message, src_addr)
Datagrams ==
    [type : DatagramTypes, player_id : NodeIds, port : PayloadPorts,
     src : {SocketAddr(ip, SendPort) : ip \in Ips}]

\* 255.255.255.255:port
BroadcastAddr(port) == SocketAddr("255.255.255.255", port)

\* a datagram handed to send_to: its destination and its payload, where
\* only PlayerDiscovery and PlayerDiscoveryResponse carry a port
Outgoing(type, to) ==
    [type |-> type, to |-> to, player_id |-> local_id,
     port |-> IF type \in {"PlayerDiscovery", "PlayerDiscoveryResponse"}
              THEN actual_port ELSE 0]

\* app.emit(event, {"playerId": id})
Event(event, id) == [event |-> event, playerId |-> id]

\* PeerInfo { addr, last_seen: Instant::now() }
PeerInfo(addr) == [addr |-> addr, age |-> 0]

\* HashMap::insert
Insert(dir, id, info) ==
    [p \in DOMAIN dir \cup {id} |-> IF p = id THEN info ELSE dir[p]]

\* HashMap::remove, for each id of ids
Remove(dir, ids) == [p \in DOMAIN dir \ ids |-> dir[p]]

\* what the steps record about each peer id
Recorded(dirBefore, dirAfter, events) ==
    /\ announced' =
         [p \in NodeIds |->
            IF Event("player-joined", p) \in events THEN TRUE
            ELSE IF p \in DOMAIN dirAfter /\ p \notin DOMAIN dirBefore THEN FALSE
            ELSE announced[p]]
    /\ lastEvent' =
         [p \in NodeIds |->
            IF Event("player-joined", p) \in events THEN "player-joined"
            ELSE IF Event("player-left", p) \in events THEN "player-left"
            ELSE lastEvent[p]]

\* start(), called by the join command once the session is made; port is
\* what the bind loop ended with
P2PStartAt(id, port) ==
    /\ ~current_lobby.some
    /\ port # 0 => receivers < MaxTasks
    /\ current_lobby' = NewLobby(GoodArgs.name, CreatorVirtualIp, CreatorVirtualIp)
    /\ local_id' = id
    /\ IF port # 0
       THEN /\ socket' = port
            /\ actual_port' = port
            /\ receivers' = receivers + 1
            /\ announcements' = 0
            /\ gap' = 0
       ELSE UNCHANGED <<socket, actual_port, receivers, announcements, gap>>
    /\ emitted' = {}
    /\ wire' = <<>>
    /\ cmdRes' = IF port # 0 THEN "Ok" ELSE "NetworkError"
    /\ UNCHANGED <<peer_map, recvLoops, sweep, announced, lastEvent, silent, broadcasters, lan, discFrame>>

\* start() where the range is free but for this node's own ports, or where
\* no port of it can be bound
P2PStart(id, bindOk) == P2PStartAt(id, IF bindOk THEN BindPort(receivers) ELSE 0)

StopEffectsNotifying(id, sock, dir, bcastOk) ==
    [wire |-> IF id # NoId /\ sock # 0 /\ bcastOk
              THEN <<Outgoing("PlayerLeft", BroadcastAddr(actual_port))>> ELSE <<>>,
     socket |-> 0,
     peers |-> NoPeers,
     emitted |-> {Event("player-left", p) : p \in DOMAIN dir}]

\* stop(): what it sends, and what it leaves in the socket slot and the directory
StopEffects(id, sock, dir, bcastOk) ==
    [wire |-> IF id # NoId /\ sock # 0 /\ bcastOk
              THEN <<Outgoing("PlayerLeft", BroadcastAddr(actual_port))>> ELSE <<>>,
     socket |-> 0,
     peers |-> NoPeers,
     emitted |-> {}]

\* stop(), called by the leave command
P2PStop(bcastOk) ==
    LET eff == StopEffects(local_id, socket, peer_map, bcastOk) IN
    /\ current_lobby.some \/ socket # 0 \/ DOMAIN peer_map # {}
    /\ current_lobby' = NoLobby
    /\ socket' = eff.socket
    /\ peer_map' = eff.peers
    /\ wire' = eff.wire
    /\ emitted' = eff.emitted
    /\ cmdRes' = "Ok"
    /\ Recorded(peer_map, eff.peers, eff.emitted)
    /\ UNCHANGED <<local_id, receivers, recvLoops, sweep, silent, bcastVars, lan, actual_port, discFrame>>

\* a variant that answers a PlayerDiscoveryResponse as well
DiscoveryReplyToAll(m) ==
    IF local_id # NoId
    THEN <<Outgoing("PlayerDiscoveryResponse", set_port(m.src, m.port))>> ELSE <<>>

\* the receive loop's reply to a PlayerDiscovery that is not its own
DiscoveryReply(m) ==
    IF m.type = "PlayerDiscovery" /\ local_id # NoId
    THEN <<Outgoing("PlayerDiscoveryResponse", set_port(m.src, m.port))>> ELSE <<>>

\* a receive loop takes a PlayerDiscovery or a PlayerDiscoveryResponse and
\* reads already_exists
RecvDiscover(r, m) ==
    /\ r <= receivers
    /\ recvLoops[r].pc = "recv"
    /\ m.type \in {"PlayerDiscovery", "PlayerDiscoveryResponse"}
    /\ IF local_id = m.player_id
       THEN /\ wire' = <<>>
            /\ UNCHANGED recvLoops
       ELSE /\ wire' = DiscoveryReply(m)
            /\ recvLoops' = [recvLoops EXCEPT ![r] =
                  [pc |-> "insert", player_id |-> m.player_id,
                   addr |-> set_port(m.src, m.port),
                   already_exists |-> m.player_id \in DOMAIN peer_map]]
    /\ emitted' = {}
    /\ cmdRes' = "none"
    /\ UNCHANGED <<current_lobby, socket, receivers, local_id, peer_map, sweep,
                   announced, lastEvent, silent, bcastVars, lan, actual_port, discFrame>>

\* the loop writes the record
RecvInsert(r) ==
    LET l == recvLoops[r]
        dir == Insert(peer_map, l.player_id, PeerInfo(l.addr)) IN
    /\ l.pc = "insert"
    /\ peer_map' = dir
    /\ recvLoops' = [recvLoops EXCEPT ![r] =
          IF l.already_exists THEN IdleLoop ELSE [l EXCEPT !.pc = "sleep"]]
    /\ emitted' = {}
    /\ wire' = <<>>
    /\ cmdRes' = "none"
    /\ Recorded(peer_map, dir, {})
    /\ UNCHANGED <<current_lobby, socket, receivers, local_id, sweep, silent, bcastVars, lan, actual_port, discFrame>>

\* 200 ms later the loop tells the frontend of the new peer
RecvEmit(r) ==
    LET l == recvLoops[r]
        ev == {Event("player-joined", l.player_id)} IN
    /\ l.pc = "sleep"
    /\ recvLoops' = [recvLoops EXCEPT ![r] = IdleLoop]
    /\ emitted' = ev
    /\ wire' = <<>>
    /\ cmdRes' = "none"
    /\ Recorded(peer_map, peer_map, ev)
    /\ UNCHANGED <<current_lobby, socket, receivers, local_id, peer_map, sweep,
                   silent, bcastVars, lan, actual_port, discFrame>>

\* a variant that records the sender of a Heartbeat it does not know
RefreshedOrAdded(dir, id) ==
    [p \in DOMAIN dir \cup {id} |->
        IF p = id THEN [addr |-> NoAddr, age |-> 0] ELSE dir[p]]

\* lines 434-439: if let Some(peer) = get_mut(id) { peer.last_seen = now }
Refreshed(dir, id) ==
    IF id \in DOMAIN dir THEN [dir EXCEPT ![id].age = 0] ELSE dir

\* a receive loop takes a Heartbeat
RecvHeartbeat(r, m) ==
    /\ r <= receivers
    /\ recvLoops[r].pc = "recv"
    /\ m.type = "Heartbeat"
    /\ peer_map' = Refreshed(peer_map, m.player_id)
    /\ emitted' = {}
    /\ wire' = <<>>
    /\ cmdRes' = "none"
    /\ UNCHANGED <<current_lobby, socket, receivers, local_id, recvLoops, sweep,
                   announced, lastEvent, silent, bcastVars, lan, actual_port, discFrame>>

\* a receive loop takes a PlayerLeft
RecvLeft(r, m) ==
    LET dir == Remove(peer_map, {m.player_id})
        ev == {Event("player-left", m.player_id)} IN
    /\ r <= receivers
    /\ recvLoops[r].pc = "recv"
    /\ m.type = "PlayerLeft"
    /\ peer_map' = dir
    /\ emitted' = ev
    /\ wire' = <<>>
    /\ cmdRes' = "none"
    /\ Recorded(peer_map, dir, ev)
    /\ UNCHANGED <<current_lobby, socket, receivers, local_id, recvLoops, sweep,
                   silent, bcastVars, lan, actual_port, discFrame>>

\* thirty seconds pass; a handler or a sweep under way takes far less
Tick ==
    /\ \A r \in Loops : recvLoops[r].pc = "recv"
    /\ sweep.pc = "sleep"
    /\ \E p \in DOMAIN peer_map : peer_map[p].age < OldestAge
    /\ peer_map' = [p \in DOMAIN peer_map |->
          [peer_map[p] EXCEPT !.age = IF @ < OldestAge THEN @ + SweepPeriod ELSE @]]
    /\ silent' = [p \in NodeIds |->
          silent[p] \/ (p \in DOMAIN peer_map /\ peer_map'[p].age > PeerTimeout)]
    /\ emitted' = {}
    /\ wire' = <<>>
    /\ cmdRes' = "none"
    /\ UNCHANGED <<current_lobby, socket, receivers, local_id, recvLoops, sweep,
                   announced, lastEvent, bcastVars, lan, actual_port, discFrame>>

TimedOutInclusive(age) == age >= PeerTimeout

\* now.duration_since(last_seen) > timeout_duration
TimedOut(age) == age > PeerTimeout

\* the heartbeat task wakes, sends its Heartbeat and scans the directory
SweepScan ==
    LET late == {p \in DOMAIN peer_map : TimedOut(peer_map[p].age)} IN
    /\ receivers > 0
    /\ sweep.pc = "sleep"
    /\ wire' = IF local_id # NoId /\ socket # 0
               THEN <<Outgoing("Heartbeat", BroadcastAddr(actual_port))>> ELSE <<>>
    /\ late # {} \/ wire' # <<>>
    /\ sweep' = IF late = {} THEN SweepAsleep
                ELSE [pc |-> "remove", timeout_players |-> late]
    /\ emitted' = {}
    /\ cmdRes' = "none"
    /\ UNCHANGED <<current_lobby, socket, receivers, local_id, peer_map, recvLoops,
                   announced, lastEvent, silent, bcastVars, lan, actual_port, discFrame>>

\* the heartbeat task removes what it scanned and tells the frontend
SweepRemove ==
    LET dir == Remove(peer_map, sweep.timeout_players)
        ev == {Event("player-left", p) : p \in sweep.timeout_players} IN
    /\ sweep.pc = "remove"
    /\ peer_map' = dir
    /\ sweep' = SweepAsleep
    /\ emitted' = ev
    /\ wire' = <<>>
    /\ cmdRes' = "none"
    /\ Recorded(peer_map, dir, ev)
    /\ UNCHANGED <<current_lobby, socket, receivers, local_id, recvLoops, silent,
                   bcastVars, lan, actual_port, discFrame>>

\* send_to_player: what it returns and what it sends
SendEffects(dir, sock, id) ==
    IF id \notin DOMAIN dir
    THEN [res |-> "NetworkError: player does not exist", wire |-> <<>>]
    ELSE IF sock = 0
    THEN [res |-> "NetworkError: socket not initialized", wire |-> <<>>]
    ELSE [res |-> "Ok", wire |-> <<Outgoing("Signal", dir[id].addr)>>]

\* the send_signaling_message command with a target
SendToPlayer(id) ==
    LET eff == SendEffects(peer_map, socket, id) IN
    /\ cmdRes' = eff.res
    /\ wire' = eff.wire
    /\ emitted' = {}
    /\ UNCHANGED <<current_lobby, socket, receivers, local_id, peer_map, recvLoops,
                   sweep, announced, lastEvent, silent, bcastVars, lan, actual_port, discFrame>>

\* The datagrams of the given senders that arrive from the first endpoint.
DatagramsFrom(ids) ==
    {m \in Datagrams : m.player_id \in ids /\ m.src.ip = "ip1" /\ m.port = BasePort}

\* ---- announcements: every receive loop, no clock
NextAnnounce ==
    \/ \E bindOk \in BOOLEAN : P2PStart("n1", bindOk)
    \/ \E bcastOk \in BOOLEAN : P2PStop(bcastOk)
    \/ \E r \in Loops, m \in DatagramsFrom(NodeIds) : RecvDiscover(r, m)
    \/ \E r \in Loops : RecvInsert(r)
    \/ \E r \in Loops : RecvEmit(r)
    \/ \E r \in Loops, m \in DatagramsFrom(NodeIds) : RecvLeft(r, m)

SpecAnnounce == Init /\ [][NextAnnounce]_vars

\* ---- the timeout sweeper: one receive loop, two remote peers, the clock
\* the id of the local player where every id of NodeIds is a remote peer
SweeperId == "n0"

NextSweep ==
    \/ P2PStart(SweeperId, TRUE)
    \/ P2PStop(TRUE)
    \/ \E m \in DatagramsFrom(NodeIds) : RecvDiscover(1, m)
    \/ RecvInsert(1)
    \/ RecvEmit(1)
    \/ \E m \in DatagramsFrom(NodeIds) : RecvHeartbeat(1, m)
    \/ \E m \in DatagramsFrom(NodeIds) : RecvLeft(1, m)
    \/ Tick
    \/ SweepScan
    \/ SweepRemove

SpecSweep == Init /\ [][NextSweep]_vars

\* ---- the directory: one receive loop, every sender, every endpoint
NextDirectory ==
    \/ \E id \in NodeIds, bindOk \in BOOLEAN : P2PStart(id, bindOk)
    \/ \E bcastOk \in BOOLEAN : P2PStop(bcastOk)
    \/ \E m \in Datagrams : RecvDiscover(1, m)
    \/ RecvInsert(1)
    \/ RecvEmit(1)
    \/ \E m \in Datagrams : RecvHeartbeat(1, m)
    \/ \E m \in Datagrams : RecvLeft(1, m)
    \/ \E id \in NodeIds : SendToPlayer(id)

SpecDirectory == Init /\ [][NextDirectory]_vars

\* ---- the broadcaster: the tasks of start_discovery_broadcast and the clock
\* line 465: count < 10
FastRounds == 10

\* line 466: Duration::from_secs(1)
FastInterval == 1

\* line 468: Duration::from_secs(5)
SlowInterval == 5

\* lines 465-469
Interval(count) == IF count < FastRounds THEN FastInterval ELSE SlowInterval

\* a task of start_discovery_broadcast that exists: one per receive loop,
\* both are spawned by start() and neither ends
Broadcasting(b) == b <= receivers

\* one second passes for every task asleep; a task whose sleep is over runs
\* first
Second ==
    /\ receivers > 0
    /\ \A b \in Loops : Broadcasting(b) => broadcasters[b].slept < Interval(broadcasters[b].count)
    /\ broadcasters' = [b \in Loops |->
          IF Broadcasting(b) THEN [broadcasters[b] EXCEPT !.slept = @ + 1]
          ELSE broadcasters[b]]
    /\ gap' = IF gap < SlowInterval THEN gap + 1 ELSE gap
    /\ emitted' = {}
    /\ wire' = <<>>
    /\ cmdRes' = "none"
    /\ UNCHANGED <<current_lobby, socket, receivers, local_id, peer_map, recvLoops, sweep,
                   announced, lastEvent, silent, announcements, actual_port, lan, discFrame>>

\* lines 471-497: the sleep of task b is over; it counts the round and, with
\* the local id set and a socket in the slot, broadcasts a PlayerDiscovery.
\* Beyond FastRounds every round is alike and the count is kept there.
BroadcastDiscovery(b) ==
    /\ Broadcasting(b)
    /\ broadcasters[b].slept = Interval(broadcasters[b].count)
    /\ broadcasters' = [broadcasters EXCEPT ![b] =
          [count |-> IF @.count < FastRounds THEN @.count + 1 ELSE @.count, slept |-> 0]]
    /\ IF local_id # NoId /\ socket # 0
       THEN /\ wire' = <<Outgoing("PlayerDiscovery", BroadcastAddr(actual_port))>>
            /\ announcements' = IF announcements < FastRounds + 1 THEN announcements + 1
                                 ELSE announcements
            /\ gap' = 0
       ELSE /\ wire' = <<>>
            /\ UNCHANGED <<announcements, gap>>
    /\ emitted' = {}
    /\ cmdRes' = "none"
    /\ UNCHANGED <<current_lobby, socket, receivers, local_id, peer_map, recvLoops, sweep,
                   announced, lastEvent, silent, actual_port, lan, discFrame>>

NextBroadcast ==
    \/ \E bindOk \in BOOLEAN : P2PStart("n1", bindOk)
    \/ \E bcastOk \in BOOLEAN : P2PStop(bcastOk)
    \/ Second
    \/ \E b \in Loops : BroadcastDiscovery(b)

SpecBroadcast == Init /\ [][NextBroadcast]_vars

\* ---- two services, each on a host of its own, on one broadcast domain
\* the address of the host a service runs on
HostOf(id) == IF id = "n1" THEN "ip1" ELSE "ip2"

\* every variable but lan
lanFrame ==
    <<supVars, osVars, taskVars, lobbyVars, p2pVars, appVars, cmdVars, discVars, waitVars,
      actual_port, bcastVars>>

\* the ports other programs may hold on a host
LanOccupied == SUBSET {BasePort, BasePort + 1}

\* a datagram sent to the address `to` is handed to the socket of service k:
\* the socket is bound to the destination port on a host the address names
Reaches(k, to) ==
    /\ lan.port[k] # 0
    /\ lan.port[k] = to.port
    /\ to.ip \in {"255.255.255.255", HostOf(k)}

\* socket.send_to of service n: one copy for each socket the datagram
\* reaches; its source is the sender's bound socket
SendTo(n, type, to) ==
    {[rcpt |-> k, type |-> type, player_id |-> n, port |-> lan.port[n],
      src |-> SocketAddr(HostOf(n), lan.port[n])] : k \in {j \in NodeIds : Reaches(j, to)}}

\* start() lines 136-177 of service n: the bind loop ends with a port
LanStart(n, occupied) ==
    /\ lan.port[n] = 0
    /\ BindLoop(BasePort, occupied) # 0
    /\ lan' = [lan EXCEPT !.port[n] = BindLoop(BasePort, occupied)]
    /\ UNCHANGED lanFrame

\* lines 474-498: the broadcaster of service n sends a PlayerDiscovery that
\* names its port to 255.255.255.255 on its own port
LanBroadcast(n) ==
    /\ lan.port[n] # 0
    /\ lan' = [lan EXCEPT !.air = @ \cup SendTo(n, "PlayerDiscovery", BroadcastAddr(lan.port[n]))]
    /\ UNCHANGED lanFrame

\* lines 216-261 and 289-361: the receive loop of service n takes a datagram.
\* One of its own is dropped; a PlayerDiscovery is answered to the sender's
\* address with the port of the payload; the sender is recorded.
LanReceive(n, d) ==
    /\ d \in lan.air
    /\ d.rcpt = n
    /\ IF d.player_id = n
       THEN lan' = [lan EXCEPT !.air = @ \ {d}]
       ELSE lan' = [lan EXCEPT
               !.air = (@ \ {d}) \cup
                       (IF d.type = "PlayerDiscovery"
                        THEN SendTo(n, "PlayerDiscoveryResponse", set_port(d.src, d.port))
                        ELSE {}),
               !.dir[n] = Insert(@, d.player_id, PeerInfo(set_port(d.src, d.port)))]
    /\ UNCHANGED lanFrame

LanReceiveAny(n) == \E d \in lan.air : LanReceive(n, d)

NextLan ==
    \/ \E n \in NodeIds, occupied \in LanOccupied : LanStart(n, occupied)
    \/ \E n \in NodeIds : LanBroadcast(n)
    \/ \E n \in NodeIds : LanReceiveAny(n)

SpecLan == Init /\ [][NextLan]_vars

\* the ports a service can end up with
LanPorts == {BindLoop(BasePort, occupied) : occupied \in LanOccupied}

\* the datagrams that can be under way
LanDatagrams ==
    [rcpt : NodeIds, type : {"PlayerDiscovery", "PlayerDiscoveryResponse"}, player_id : NodeIds,
     port : LanPorts, src : {SocketAddr(ip, port) : ip \in Ips, port \in LanPorts}]

\* the broadcaster and the receive loop of a started service run for ever,
\* and the loop takes the datagrams queued in its socket in order: each one
\* is taken in the end
SpecLanLive ==
    /\ SpecLan
    /\ \A n \in NodeIds : WF_vars(LanBroadcast(n))
    /\ \A n \in NodeIds, d \in LanDatagrams : WF_vars(LanReceive(n, d))

\* ---- the bind loop: one node on a host where other programs hold ports
\* the ports of the range
PortRange == BasePort..(BasePort + PortTries)

\* the ports other programs hold: the first k of the range, the range but
\* for one port, and a few scattered ones
OccupiedSets ==
    { BasePort..(BasePort + k - 1) : k \in 0..(PortTries + 2) }
    \cup { PortRange \ {BasePort + k} : k \in {0, 1, PortTries - 1, PortTries} }
    \cup { {BasePort + 1}, {BasePort, BasePort + 2}, {BasePort + PortTries} }

InitBind ==
    /\ InitButArgs
    /\ cmdArgs \in {[occupied |-> occ] : occ \in OccupiedSets}

\* the port the one receive loop spawned before holds
HeldByLoop == IF receivers = 0 THEN {} ELSE {actual_port}

\* start() on this host, for the first or the second time
BindStart ==
    /\ receivers <= 1
    /\ P2PStartAt("n1", BindLoop(BasePort, cmdArgs.occupied \cup HeldByLoop))

NextBind ==
    \/ BindStart
    \/ \E bcastOk \in BOOLEAN : P2PStop(bcastOk)

SpecBind == InitBind /\ [][NextBind]_vars

\* ======================================================================
\* The roster specification: LobbyManager alone, each method one step, with
\* the result of start_easytier an input of create_lobby.
\* ======================================================================

\* the ids of the players of other nodes
RemoteIds == {"p1", "p2"}

\* Player::new for the player of another node
RemotePlayer(id) ==
    [id |-> id, name |-> <<"b", "1">>, mic_enabled |-> FALSE, is_muted |-> FALSE]

\* what start_easytier can return to create_lobby
StartResults == {StartOk(Addr(10, 126, 126, 1)), StartOk(Addr(10, 126, 126, 2)),
                 StartErr("start failed")}

\* the variables of the other specifications, which the roster leaves alone
rosterFrame ==
    <<discVars, waitVars, bcastVars, lan, actual_port, supVars, osVars, taskVars, p2pVars, appVars, cmdPc, stopFrom,
      subFailed, startInvoked>>

\* the method called, its arguments and what it returned
Called(op, args, res) ==
    /\ cmdOp' = op
    /\ cmdArgs' = args
    /\ cmdRes' = res

\* self.players.insert(player.id.clone(), player)
Put(roster, player) == {q \in roster : q.id # player.id} \cup {player}

\* self.players.get_mut(player_id)
HasPlayer(roster, id) == \E q \in roster : q.id = id

\* LobbyError::PlayerNotFound(player_id)
PlayerNotFound(id) == <<"PlayerNotFound", id>>

SetMicOfAll(roster, id, flag) == {[q EXCEPT !.mic_enabled = flag] : q \in roster}

\* player.mic_enabled = mic_enabled
SetMic(roster, id, flag) ==
    {IF q.id = id THEN [q EXCEPT !.mic_enabled = flag] ELSE q : q \in roster}

\* player.is_muted = is_muted
SetMuted(roster, id, flag) ==
    {IF q.id = id THEN [q EXCEPT !.is_muted = flag] ELSE q : q \in roster}

add_player(id) ==
    /\ players' = Put(players, RemotePlayer(id))
    /\ Called("add_player", [id |-> id, flag |-> FALSE], "Ok")
    /\ UNCHANGED <<current_lobby, startRes, rosterFrame>>

remove_player(id) ==
    /\ players' = {q \in players : q.id # id}
    /\ Called("remove_player", [id |-> id, flag |-> FALSE],
              IF HasPlayer(players, id) THEN "Some" ELSE "None")
    /\ UNCHANGED <<current_lobby, startRes, rosterFrame>>

update_player_mic_status(id, flag) ==
    /\ IF HasPlayer(players, id)
       THEN /\ players' = SetMic(players, id, flag)
            /\ Called("update_player_mic_status", [id |-> id, flag |-> flag], "Ok")
       ELSE /\ players' = players
            /\ Called("update_player_mic_status", [id |-> id, flag |-> flag],
                      PlayerNotFound(id))
    /\ UNCHANGED <<current_lobby, startRes, rosterFrame>>

update_player_mute_status(id, flag) ==
    /\ IF HasPlayer(players, id)
       THEN /\ players' = SetMuted(players, id, flag)
            /\ Called("update_player_mute_status", [id |-> id, flag |-> flag], "Ok")
       ELSE /\ players' = players
            /\ Called("update_player_mute_status", [id |-> id, flag |-> flag],
                      PlayerNotFound(id))
    /\ UNCHANGED <<current_lobby, startRes, rosterFrame>>

clear_players ==
    /\ players' = {}
    /\ Called("clear_players", NoArgs, "Ok")
    /\ UNCHANGED <<current_lobby, startRes, rosterFrame>>

\* what an entry call returns and what it leaves behind
Outcome(res, started, lobby, roster) ==
    [res |-> res, startRes |-> started, lobby |-> lobby, players |-> roster]

\* create_lobby lines 280-331 as a whole, start_easytier returning started
CreateOutcome(lobby, roster, args, started) ==
    IF lobby.some THEN Outcome("AlreadyInLobby", NoRes, lobby, roster)
    ELSE IF ValidateArgs(args) # "Ok" THEN Outcome("InvalidInput", NoRes, lobby, roster)
    ELSE IF started.kind = "Err" THEN Outcome("NetworkError", started, lobby, roster)
    ELSE Outcome("Ok", started, NewLobby(args.name, started.ip, CreatorVirtualIp),
                 Put(roster, NewPlayer(args.player_name)))

\* a variant of join_lobby that starts the tunnel without validating
JoinOutcomeUnvalidated(lobby, roster, args, started) ==
    IF lobby.some THEN Outcome("AlreadyInLobby", NoRes, lobby, roster)
    ELSE IF started.kind = "Err" THEN Outcome("NetworkError", started, lobby, roster)
    ELSE Outcome("Ok", started, NewLobby(args.name, started.ip, CreatorVirtualIp),
                 Put(roster, NewPlayer(args.player_name)))

\* join_lobby lines 345-401 as a whole, start_easytier returning started
JoinOutcome(lobby, roster, args, started) ==
    IF lobby.some THEN Outcome("AlreadyInLobby", NoRes, lobby, roster)
    ELSE IF validate_lobby_name(args.name) # "Ok"
            \/ validate_password(args.password) # "Ok"
            \/ validate_input(args.player_name) # "Ok"
            \/ validate_input(args.server_node) # "Ok"
         THEN Outcome("InvalidInput", NoRes, lobby, roster)
    ELSE IF started.kind = "Err" THEN Outcome("NetworkError", started, lobby, roster)
    ELSE Outcome("Ok", started, NewLobby(args.name, started.ip, CreatorVirtualIp),
                 Put(roster, NewPlayer(args.player_name)))

\* an entry call with outcome o
Entered(op, args, o) ==
    /\ Called(op, args, o.res)
    /\ startRes' = o.startRes
    /\ current_lobby' = o.lobby
    /\ players' = o.players
    /\ UNCHANGED rosterFrame

create_lobby(args, started) ==
    Entered("create_lobby", args, CreateOutcome(current_lobby, players, args, started))

join_lobby(args, started) ==
    Entered("join_lobby", args, JoinOutcome(current_lobby, players, args, started))

\* leave_lobby as a whole; stop_easytier returns Ok
leave_lobby ==
    /\ IF current_lobby.some
       THEN /\ current_lobby' = NoLobby
            /\ players' = {}
            /\ Called("leave_lobby", NoArgs, "Ok")
       ELSE /\ UNCHANGED <<current_lobby, players>>
            /\ Called("leave_lobby", NoArgs, "NotInLobby")
    /\ startRes' = NoRes
    /\ UNCHANGED rosterFrame

NextRoster ==
    \/ \E id \in RemoteIds : add_player(id)
    \/ \E id \in RemoteIds : remove_player(id)
    \/ \E id \in RemoteIds \cup {"local"}, flag \in BOOLEAN :
          update_player_mic_status(id, flag)
    \/ \E id \in RemoteIds \cup {"local"}, flag \in BOOLEAN :
          update_player_mute_status(id, flag)
    \/ clear_players
    \/ \E args \in CmdArgs, started \in StartResults : create_lobby(args, started)
    \/ \E args \in CmdArgs, started \in StartResults : join_lobby(args, started)
    \/ leave_lobby

SpecRoster == Init /\ [][NextRoster]_vars

\* ======================================================================
\* The validation specification: each run takes one input and validates it.
\* ======================================================================

\* the characters of the inputs
NameChars == {"a", "1", " ", "TAB", "NL", "_", "-", "CJK", "!"}

\* every string over chars of at most n characters
StringsUpTo(chars, n) == UNION {[1..k -> chars] : k \in 0..n}

\* names around the lower limit, and names around the upper limit with every
\* ending
NameInputs ==
    StringsUpTo(NameChars, MinNameLen + 1)
    \cup {Rep("a", MaxNameLen - 2) \o t : t \in StringsUpTo(NameChars, MinNameLen - 1)}

\* the characters of the password inputs: a letter, a digit, a three-byte
\* letter, a space, a punctuation mark
PasswordChars == {"a", "1", "CJK", " ", "!"}

\* short passwords, and passwords around the two limits that start with
\* letters or with digits
PasswordInputs ==
    StringsUpTo(PasswordChars, MinPasswordLen \div 2)
    \cup {Rep(c, n) \o t :
            c \in {"a", "1"},
            n \in {MinPasswordLen - 2, MaxPasswordLen - 2},
            t \in StringsUpTo(PasswordChars, 3)}

\* the free-text inputs: every mix of whitespace and a letter
FreeTextInputs == StringsUpTo({" ", "TAB", "NL", "CR", "a"}, MinNameLen + 1)

\* the fields create_lobby and join_lobby pass to validate_input
FreeTextFields == {"player_name", "server_node"}

InitValidate ==
    /\ InitButArgs
    /\ cmdArgs \in {[NoArgs EXCEPT !.name = n] : n \in NameInputs}
                  \cup {[NoArgs EXCEPT !.password = w] : w \in PasswordInputs}
                  \cup {[NoArgs EXCEPT ![f] = t] :
                          f \in FreeTextFields, t \in FreeTextInputs}

\* LobbyManager::validate_lobby_name(&name)
ValidateName ==
    /\ cmdOp = "none"
    /\ cmdOp' = "validate_lobby_name"
    /\ cmdRes' = validate_lobby_name(cmdArgs.name)
    /\ UNCHANGED <<discVars, waitVars, bcastVars, lan, actual_port, supVars, osVars, taskVars, lobbyVars, p2pVars, appVars,
                   cmdPc, cmdArgs, startRes, stopFrom, subFailed, startInvoked>>

\* LobbyManager::validate_password(&password)
ValidatePassword ==
    /\ cmdOp = "none"
    /\ cmdOp' = "validate_password"
    /\ cmdRes' = validate_password(cmdArgs.password)
    /\ UNCHANGED <<discVars, waitVars, bcastVars, lan, actual_port, supVars, osVars, taskVars, lobbyVars, p2pVars, appVars,
                   cmdPc, cmdArgs, startRes, stopFrom, subFailed, startInvoked>>

\* format!("{}不能为空或仅包含空白字符", field_name)
InvalidInputMessage(field_name) == <<field_name, "is empty or only whitespace">>

\* LobbyManager::validate_input(&input, field_name)
ValidateInput(field_name) ==
    LET res == validate_input(cmdArgs[field_name]) IN
    /\ cmdOp = "none"
    /\ cmdOp' = "validate_input"
    /\ cmdRes' = [res |-> res, field |-> field_name,
                  message |-> IF res = "Ok" THEN <<>>
                              ELSE InvalidInputMessage(field_name)]
    /\ UNCHANGED <<discVars, waitVars, bcastVars, lan, actual_port, supVars, osVars, taskVars, lobbyVars, p2pVars, appVars,
                   cmdPc, cmdArgs, startRes, stopFrom, subFailed, startInvoked>>

NextValidate ==
    \/ ValidateName
    \/ ValidatePassword
    \/ \E field_name \in FreeTextFields : ValidateInput(field_name)

SpecValidate == InitValidate /\ [][NextValidate]_vars

\* ======================================================================
\* The extraction specification: each run takes one line and extracts its
\* address.  A line is a sequence of tokens: a run of digits N(v) (v >= 1000
\* stands for a run of more than three digits), a run of letters, or one
\* separator character.
\* ======================================================================

N(v) == [k |-> "n", v |-> v]

T(k) == [k |-> k, v |-> 0]

\* the dotted-quad a.b.c.d as text
QuadText(q) == <<N(q[1]), T("."), N(q[2]), T("."), N(q[3]), T("."), N(q[4])>>

\* \b(\d{1,3}\.\d{1,3}\.\d{1,3}\.\d{1,3})\b matches at token i
MatchAt(ts, i) ==
    /\ i + 6 <= Len(ts)
    /\ \A j \in {0, 2, 4, 6} : ts[i + j].k = "n" /\ ts[i + j].v < 1000
    /\ \A j \in {1, 3, 5} : ts[i + j].k = "."
    /\ i > 1 => ts[i - 1].k # "w"
    /\ i + 6 < Len(ts) => ts[i + 7].k # "w"

\* ip_pattern.captures_iter(line): the matches left to right, none
\* overlapping another
RECURSIVE captures_iter(_, _)
captures_iter(ts, i) ==
    IF i > Len(ts) THEN <<>>
    ELSE IF MatchAt(ts, i)
         THEN <<Addr(ts[i].v, ts[i + 2].v, ts[i + 4].v, ts[i + 6].v)>>
              \o captures_iter(ts, i + 7)
         ELSE captures_iter(ts, i + 1)

\* the addresses of the input lines
InputQuads ==
    { <<10, 144, 144, 1>>, <<192, 168, 1, 100>>, <<172, 16, 0, 1>>, <<172, 32, 0, 1>>,
      <<127, 0, 0, 1>>, <<256, 1, 1, 1>>, <<999, 999, 999, 999>>, <<0, 0, 0, 0>>,
      <<0, 0, 0, 1>>, <<255, 255, 255, 254>>, <<8, 8, 8, 8>>, <<1000, 1, 1, 1>> }

\* what stands before the first address, between two addresses, and after
\* the last
LinePrefixes == { <<>>, <<T("w"), T(":"), T(" ")>>, <<T("w"), T(":")>>, <<T("w")>>, <<T(" ")>> }

LineSuffixes == { <<>>, <<T(" ")>>, <<T("/"), N(24)>>, <<T(" "), T("w")>>, <<T("w")>>,
                  <<T("."), N(5)>> }

\* lines with no address, with one, and with two
LineInputs ==
    { <<>>, <<T("w"), T(" "), T("w")>>, <<N(10), T("."), N(1)>> }
    \cup { pre \o QuadText(q) \o suf :
             pre \in LinePrefixes, q \in InputQuads, suf \in LineSuffixes }
    \cup { <<T("w"), T(" ")>> \o QuadText(q) \o <<T(" "), T("w"), T(" ")>> \o QuadText(r) :
             q \in InputQuads, r \in InputQuads }

InitExtract ==
    /\ InitButArgs
    /\ cmdArgs \in {[text |-> l] : l \in LineInputs}

\* NetworkService::extract_ip_from_line(line)
ExtractIp ==
    /\ cmdOp = "none"
    /\ cmdOp' = "extract_ip_from_line"
    /\ cmdRes' = extract_ip_from_line([quads |-> captures_iter(cmdArgs.text, 1)])
    /\ UNCHANGED <<discVars, waitVars, bcastVars, lan, actual_port, supVars, osVars, taskVars, lobbyVars, p2pVars, appVars,
                   cmdPc, cmdArgs, startRes, stopFrom, subFailed, startInvoked>>

NextExtract == ExtractIp

SpecExtract == InitExtract /\ [][NextExtract]_vars

\* ======================================================================
\* The wait specification: one start_easytier call with the clock of its
\* wait loop, the daemon printing what it likes and the CLI answering what it
\* likes.
\* ======================================================================

\* line 379, Duration::from_secs(30)
TimeoutDuration == 30000

\* line 437, sleep(Duration::from_millis(100))
PollInterval == 100

\* line 409, Duration::from_secs(3)
CliInterval == 3000

\* line 409, cli_check_count < 10
MaxCliChecks == 10

\* a variant whose deadline never passes
ExpiredNever(t) == FALSE

\* line 386: start_time.elapsed() > timeout_duration
Expired(t) == t > TimeoutDuration

\* line 409: a query is due
CliDue(since, count) == since > CliInterval /\ count < MaxCliChecks

\* a clock after one sleep; beyond `most` its value decides nothing
Later(t, most) == IF t + PollInterval > most THEN most ELSE t + PollInterval

\* a second address the daemon may print later
LaterStdoutLines ==
    { [keyword |-> TRUE, excluded |-> FALSE, quads |-> <<Addr(10, 126, 126, 2)>>] }

\* the create command with valid input calls start_easytier
WaitCreate == CmdCreateOrJoin("create", GoodArgs)

\* lines 379-382: the locals of the wait loop
WaitSave ==
    /\ StartSaveBody
    /\ elapsed' = 0
    /\ since_check' = 0
    /\ cli_check_count' = 0

\* lines 385-391
WaitTimeout == Expired(elapsed) /\ LoopTimeoutBody /\ UNCHANGED waitVars

\* lines 393-398
WaitStatus == ~Expired(elapsed) /\ LoopStatusBody /\ UNCHANGED waitVars

\* lines 409-421: the query is counted; after a query without an address
\* last_check_time is set to now
WaitCli ==
    /\ CliDue(since_check, cli_check_count)
    /\ LoopCliBody
    /\ cli_check_count' = cli_check_count + 1
    /\ since_check' = IF cmdPc' = "loop_running" THEN 0 ELSE since_check
    /\ UNCHANGED elapsed

WaitNoCli == ~CliDue(since_check, cli_check_count) /\ LoopNoCliBody /\ UNCHANGED waitVars

\* lines 423-437: the flag is tested and the loop sleeps
WaitRunning ==
    /\ LoopRunningBody
    /\ IF cmdPc' = "loop_top"
       THEN /\ elapsed' = Later(elapsed, TimeoutDuration + PollInterval)
            /\ since_check' = Later(since_check, CliInterval + PollInterval)
       ELSE UNCHANGED <<elapsed, since_check>>
    /\ UNCHANGED cli_check_count

WaitStdoutLine == ReadStdout(StdoutLines \cup LaterStdoutLines)

\* the steps of the call
WaitProgress ==
    \/ StartCheck
    \/ StartSpawnFails
    \/ StartSpawn
    \/ WaitSave
    \/ WaitTimeout
    \/ WaitStatus
    \/ LoopIp
    \/ WaitCli
    \/ WaitNoCli
    \/ WaitRunning
    \/ StopKill
    \/ StopReset
    \/ StopDir
    \/ StopReturnToStart

NextWait ==
    \/ WaitCreate
    \/ StartCheck
    \/ StartSpawnFails
    \/ StartSpawn
    \/ WaitSave
    \/ WaitTimeout
    \/ WaitStatus
    \/ LoopIp
    \/ WaitCli
    \/ WaitNoCli
    \/ WaitRunning
    \/ StopKill
    \/ StopReset
    \/ StopDir
    \/ StopReturnToStart
    \/ WaitStdoutLine
    \/ StderrFatal
    \/ DaemonExit
    \/ MonitorSeesExit
    \/ MonitorWaitFails

SpecWait == Init /\ [][NextWait]_vars

\* The call is a task of the runtime: a step that stays possible is taken.
SpecWaitLive == SpecWait /\ WF_vars(WaitProgress)

\* ======================================================================
\* The claims about discovery
\* ======================================================================

\* C11: "player-joined" is emitted exactly once per peer per presence
\* interval: while a peer's record stays in the directory, a second
\* "player-joined" for it is never emitted, however many PlayerDiscovery and
\* PlayerDiscoveryResponse datagrams it sends.
C11_JoinedOncePerPresence ==
    [][\A p \in NodeIds :
         Event("player-joined", p) \in emitted' => ~announced[p]]_vars

\* C12: the peer directory never contains the node's own peer id, whatever
\* datagrams were received, including datagrams that carry the local id.
C12_SelfNeverInDirectory == local_id \notin DOMAIN peer_map

\* C13: a peer from which a PlayerDiscovery, PlayerDiscoveryResponse or
\* Heartbeat is processed in every 90-second window is never removed by the
\* timeout sweeper, and no "player-left" is emitted for it: every record the
\* sweeper removes, and every id it reports, went more than 90 seconds
\* without a refresh, also when a refresh came between its scan and its
\* removal.
C13_RefreshedPeerKept ==
    [][SweepRemove =>
         \A p \in NodeIds :
            (p \in DOMAIN peer_map \ DOMAIN peer_map'
                \/ Event("player-left", p) \in emitted') => silent[p]]_vars

\* The sweeper has just scanned a directory that holds a peer last heard 90
\* seconds ago, and did not select it.
C13_Witness ==
    /\ wire = <<Outgoing("Heartbeat", BroadcastAddr(actual_port))>>
    /\ sweep = SweepAsleep
    /\ \E p \in DOMAIN peer_map : peer_map[p].age = PeerTimeout /\ ~silent[p]

\* C14: a known peer that stays silent for more than 90 seconds is removed
\* once and reported once: after a "player-left" for it, no second
\* "player-left" is emitted (by a later sweep or a late PlayerLeft datagram)
\* before the peer is announced again.
C14_LeftOncePerPresence ==
    [][\A p \in NodeIds :
         (silent[p] /\ Event("player-left", p) \in emitted')
            => lastEvent[p] # "player-left"]_vars

\* C15: for each peer id the notifications alternate, starting with
\* "player-joined": "player-left" is never emitted unless "player-joined"
\* was emitted for that peer earlier with no "player-left" in between.
C15_LeftOnlyAfterJoined ==
    [][\A p \in NodeIds :
         Event("player-left", p) \in emitted'
            => lastEvent[p] = "player-joined"]_vars

\* C16: stop() broadcasts at most one PlayerLeft for the local peer, then
\* releases the socket and clears the directory: when it returns the
\* directory is empty and the socket slot is None, and stop() emits no
\* "player-left" for any peer it cleared.
C16_StopClearsQuietly ==
    [][(\E bcastOk \in BOOLEAN : P2PStop(bcastOk))
         => /\ Len(wire') <= 1
            /\ \A i \in 1..Len(wire') : wire'[i] = Outgoing("PlayerLeft", BroadcastAddr(actual_port))
            /\ socket' = 0
            /\ DOMAIN peer_map' = {}
            /\ \A p \in NodeIds : Event("player-left", p) \notin emitted']_vars

\* stop() has just sent its PlayerLeft and cleared a peer that was announced
\* and never reported as left.
C16_Witness ==
    /\ wire = <<Outgoing("PlayerLeft", BroadcastAddr(actual_port))>>
    /\ socket = 0
    /\ emitted = {}
    /\ \E p \in NodeIds : lastEvent[p] = "player-joined" /\ p \notin DOMAIN peer_map

\* C18: send_to_player for an id that is not in the directory fails with the
\* player-not-found error and sends no datagram; for an id that is in the
\* directory it sends exactly one datagram, to the endpoint recorded for
\* that peer.
C18_UnicastToRecordedEndpoint ==
    [][\A id \in NodeIds :
         SendToPlayer(id)
            => IF id \in DOMAIN peer_map
               THEN wire' = <<Outgoing("Signal", peer_map[id].addr)>>
               ELSE /\ cmdRes' = "NetworkError: player does not exist"
                    /\ wire' = <<>>]_vars

\* ======================================================================
\* The claims about the roster
\* ======================================================================

\* C17: after a successful create the session's virtual_ip is the address
\* start_easytier returned, and the roster holds exactly one member, the
\* local player with the given display name, whatever roster operations
\* came before the create.
C17_CreateYieldsSoleMember ==
    (cmdOp = "create_lobby" /\ cmdRes = "Ok")
        => /\ current_lobby.some
           /\ current_lobby.virtual_ip = startRes.ip
           /\ players = {NewPlayer(cmdArgs.player_name)}

\* what a flag update must leave as it was: the session, the set of ids, and
\* every member but the given one
OnlyMemberChanged(id) ==
    /\ current_lobby' = current_lobby
    /\ {q.id : q \in players'} = {q.id : q \in players}
    /\ Cardinality(players') = Cardinality(players)
    /\ \A q \in players : q.id # id => q \in players'

\* C19: update_player_mic_status and update_player_mute_status on an id that
\* is not in the roster fail with PlayerNotFound(id) and leave the roster
\* unchanged; on an id that is present they set only that member's
\* mic_enabled (respectively is_muted) and leave every other field of every
\* member unchanged.
C19_FlagUpdateFrame ==
    [][\A id \in RemoteIds \cup {"local"}, flag \in BOOLEAN :
         /\ update_player_mic_status(id, flag)
              => IF HasPlayer(players, id)
                 THEN /\ cmdRes' = "Ok"
                      /\ OnlyMemberChanged(id)
                      /\ \A q \in players : q.id = id =>
                            [q EXCEPT !.mic_enabled = flag] \in players'
                 ELSE /\ cmdRes' = PlayerNotFound(id)
                      /\ UNCHANGED <<players, current_lobby>>
         /\ update_player_mute_status(id, flag)
              => IF HasPlayer(players, id)
                 THEN /\ cmdRes' = "Ok"
                      /\ OnlyMemberChanged(id)
                      /\ \A q \in players : q.id = id =>
                            [q EXCEPT !.is_muted = flag] \in players'
                 ELSE /\ cmdRes' = PlayerNotFound(id)
                      /\ UNCHANGED <<players, current_lobby>>]_vars

\* A microphone update has just succeeded on one member while another member,
\* muted and with its microphone off, is in the roster.
C19_Witness ==
    /\ cmdOp = "update_player_mic_status"
    /\ cmdRes = "Ok"
    /\ cmdArgs.flag
    /\ \E q, o \in players :
          /\ q.id = cmdArgs.id /\ q.mic_enabled /\ ~q.is_muted
          /\ o.id # q.id /\ ~o.mic_enabled /\ o.is_muted

\* ======================================================================
\* The claims about validation
\* ======================================================================

\* the names the specification allows, once trimmed
NameAllowed(n) ==
    /\ Len(n) >= MinNameLen
    /\ Len(n) <= MaxNameLen
    /\ \E i \in 1..Len(n) : IsAlphanumeric(n[i])
    /\ \A i \in 1..Len(n) : IsAlphanumeric(n[i]) \/ n[i] \in {" ", "_", "-", "CJK"}

\* C20: a lobby name is accepted if and only if its length is 4 to 32
\* characters, it contains an alphanumeric character, and every character
\* is alphanumeric, a space, '_', '-' or a CJK character; a name with any
\* other character, such as an internal tab or newline, is rejected.
C20_NameAcceptedIff ==
    cmdOp = "validate_lobby_name"
        => (cmdRes = "Ok" <=> NameAllowed(Trim(cmdArgs.name)))

\* the passwords the specification allows, once trimmed: the length is
\* counted in characters
PasswordAllowed(w) ==
    /\ Len(w) >= MinPasswordLen
    /\ Len(w) <= MaxPasswordLen
    /\ \E i \in 1..Len(w) : IsAlphabetic(w[i])
    /\ \E i \in 1..Len(w) : IsNumeric(w[i])

\* C21: a password is accepted if and only if its length is 8 to 32
\* characters and it contains at least one letter and at least one digit,
\* for passwords over any character set, multi-byte characters included.
C21_PasswordAcceptedIff ==
    cmdOp = "validate_password"
        => (cmdRes = "Ok" <=> PasswordAllowed(Trim(cmdArgs.password)))

\* C22: for every free-text field validate_input rejects the empty string
\* and every string made only of whitespace (space, tab, newline, carriage
\* return, in any mix) with an InvalidInput error that names the field, and
\* accepts every string that is non-empty after trimming, with leading,
\* trailing or internal whitespace or without.
C22_FreeTextAcceptedIff ==
    cmdOp = "validate_input"
        => LET input == cmdArgs[cmdRes.field] IN
           IF \A i \in 1..Len(input) : input[i] \in {" ", "TAB", "NL", "CR"}
           THEN /\ cmdRes.res = "InvalidInput"
                /\ cmdRes.message # <<>>
                /\ cmdRes.message[1] = cmdRes.field
           ELSE cmdRes.res = "Ok"

\* A field holding a mix of tab, newline and carriage return has been
\* rejected.
C22_Witness ==
    /\ cmdOp = "validate_input"
    /\ cmdRes.res = "InvalidInput"
    /\ cmdRes.field = "server_node"
    /\ cmdArgs.server_node = <<"TAB", "NL", "CR", " ">>

\* ======================================================================
\* The claims about address extraction
\* ======================================================================

\* every octet 0..255
QuadValid(q) == \A i \in 1..4 : q.parts[i] >= 0 /\ q.parts[i] <= 255

\* 10/8, 172.16/12 or 192.168/16
QuadPrivate(q) ==
    \/ q.parts[1] = 10
    \/ q.parts[1] = 172 /\ q.parts[2] \in 16..31
    \/ q.parts[1] = 192 /\ q.parts[2] = 168

QuadWanted(q) == QuadValid(q) /\ QuadPrivate(q) /\ q.parts[1] # 127

C24_BoundaryQuadReturned ==
    cmdOp = "extract_ip_from_line"
        => LET qs == captures_iter(cmdArgs.text, 1) IN
           (Len(qs) = 1 /\ QuadValid(qs[1])
              /\ (qs[1] \in {Addr(0, 0, 0, 1), Addr(255, 255, 255, 254)}
                    \/ QuadWanted(qs[1])))
               => cmdRes = qs[1]

\* ======================================================================
\* The claims about the wait loop
\* ======================================================================

\* C25: every start_easytier call returns, with an address or an error; the
\* poll that finds the 30 seconds passed goes to the teardown and the return
\* and not into another round of the loop.
C25_StartReturns ==
    /\ (cmdPc = "start_check") ~> (cmdPc = "after_start")
    /\ [][(cmdPc = "loop_top" /\ elapsed > TimeoutDuration /\ cmdPc' # cmdPc)
            => cmdPc' = "stop_kill"]_vars
    /\ [](cmdPc = "stop_kill" => stopFrom \in {"timeout", "tun", "wait"})

\* A call has returned the timeout error after its deadline.
C25_Witness ==
    /\ cmdPc = "after_start"
    /\ startRes = StartErr("timeout")
    /\ elapsed > TimeoutDuration

\* C26: the first accepted address wins: once an address is recorded, no
\* step replaces it by a different address, and the status stays
\* Connected(that address), until stop or the exit of the daemon clears it.
C26_FirstAddressWins ==
    [][(virtual_ip # NoIp /\ virtual_ip' # NoIp) => virtual_ip' = virtual_ip]_vars

\* ======================================================================
\* The claims about the discovery datagrams
\* ======================================================================

\* C27: a receive loop that takes a PlayerDiscovery of another peer sends
\* exactly one PlayerDiscoveryResponse, to that peer alone; one that takes a
\* PlayerDiscoveryResponse or a PlayerDiscovery with the local id sends
\* nothing, and neither does any other step of the loop.
C27_OneReplyPerDiscover ==
    [][/\ \A r \in Loops, m \in Datagrams :
            RecvDiscover(r, m)
               => IF m.type = "PlayerDiscovery" /\ m.player_id # local_id
                  THEN /\ Len(wire') = 1
                       /\ wire'[1].type = "PlayerDiscoveryResponse"
                       /\ wire'[1].to.ip = m.src.ip
                       /\ wire'[1].to.ip # BroadcastAddr(0).ip
                  ELSE wire' = <<>>
       /\ (\E r \in Loops : \/ RecvInsert(r)
                              \/ RecvEmit(r)
                              \/ \E m \in Datagrams : RecvHeartbeat(r, m) \/ RecvLeft(r, m))
            => wire' = <<>>]_vars

\* A loop has just answered a PlayerDiscovery.
C27_Witness ==
    /\ Len(wire) = 1
    /\ wire[1].type = "PlayerDiscoveryResponse"
    /\ \E r \in Loops : recvLoops[r].pc = "insert" /\ recvLoops[r].player_id # local_id

\* the ports the sockets of this node hold
BoundPorts == {BindPort(k) : k \in 0..(receivers - 1)}

\* C28: the reply to a PlayerDiscovery goes to the IP address the datagram
\* came from with the port named in its payload, and so does the endpoint
\* recorded for the sender, never to the port the datagram came from; the
\* port in the payload of the reply is a port this node has bound.
C28_ReplyToPayloadPort ==
    [][/\ \A r \in Loops, m \in Datagrams :
            (RecvDiscover(r, m) /\ m.player_id # local_id)
               => /\ recvLoops'[r].addr = SocketAddr(m.src.ip, m.port)
                  /\ \A i \in 1..Len(wire') :
                        /\ wire'[i].to = SocketAddr(m.src.ip, m.port)
                        /\ wire'[i].port \in BoundPorts
       /\ \A r \in Loops :
            RecvInsert(r)
               => peer_map'[recvLoops[r].player_id].addr = recvLoops[r].addr]_vars

\* A reply went to the second port, which is not the one the datagram left
\* from, and a record holds an endpoint with that port.
C28_Witness ==
    /\ Len(wire) = 1
    /\ wire[1].type = "PlayerDiscoveryResponse"
    /\ wire[1].to.port = BasePort + 1
    /\ wire[1].port = socket
    /\ \E p \in DOMAIN peer_map : peer_map[p].addr.port = BasePort + 1

\* C29: a Heartbeat only refreshes the record of a peer that is known: it
\* emits nothing and sends nothing, creates no record, and leaves the
\* endpoint of the record and every other record as they were; the last-seen
\* time of a record that stays goes back at no step, that is, its age grows
\* only by the time that passes.
C29_HeartbeatOnlyRefreshes ==
    [][/\ \A m \in Datagrams :
            RecvHeartbeat(1, m)
               => /\ emitted' = {}
                  /\ wire' = <<>>
                  /\ UNCHANGED <<announced, lastEvent>>
                  /\ DOMAIN peer_map' = DOMAIN peer_map
                  /\ \A p \in DOMAIN peer_map :
                        /\ peer_map'[p].addr = peer_map[p].addr
                        /\ p # m.player_id => peer_map'[p] = peer_map[p]
                        /\ p = m.player_id => peer_map'[p].age = 0
       /\ \A p \in DOMAIN peer_map \cap DOMAIN peer_map' :
            peer_map'[p].age <= peer_map[p].age + (IF Tick THEN SweepPeriod ELSE 0)]_vars

\* A Heartbeat has refreshed one of two records and left the other, which
\* is older, as it was.
C29_Witness ==
    /\ DOMAIN peer_map = NodeIds
    /\ \E p, q \in NodeIds : peer_map[p].age = 0 /\ peer_map[q].age = PeerTimeout
    /\ recvLoops[1].pc = "recv"
    /\ emitted = {}

\* C30: after start() the announcements come one second after the one
\* before (or after start) for the first ten and five seconds after it for
\* every later one, and each carries the local id and the port the socket is
\* bound to, to the broadcast address.
C30_AnnouncementGaps ==
    [][\A b \in Loops :
         (BroadcastDiscovery(b) /\ wire' # <<>>)
            => /\ gap = (IF announcements < FastRounds THEN FastInterval ELSE SlowInterval)
               /\ wire'[1].type = "PlayerDiscovery"
               /\ wire'[1].player_id = local_id
               /\ wire'[1].port = socket
               /\ wire'[1].to = BroadcastAddr(socket)]_vars

\* ======================================================================
\* The claims about the start and the stop of discovery
\* ======================================================================

\* the ports of the range that can be bound
FreePorts == PortRange \ (cmdArgs.occupied \cup HeldByLoop)

Stopped == ~current_lobby.some /\ receivers > 0

\* C32: after stop() has returned and until the next start() the tasks of
\* the start before no longer act: no datagram is processed, no record is
\* inserted into the cleared directory, nothing is emitted; and whatever the
\* number of start/stop cycles, at most one receive loop is active.
C32_TasksEndAtStop ==
    [][/\ (Stopped /\ Stopped')
            => /\ recvLoops' = recvLoops
               /\ peer_map' = peer_map
               /\ emitted' = {}
               /\ wire' = <<>>
       /\ receivers' <= 1]_vars

\* C33: stop() releases the socket, so that on a host where nothing else
\* uses the range every start(), also one after a stop(), binds the base
\* port.
C33_RebindsBasePort == socket # 0 => socket = BasePort

\* ======================================================================
\* The claims about the session and the commands
\* ======================================================================

\* C34: create_lobby and join_lobby are the same state transformer: from
\* the same state, with the same input and the same result of
\* start_easytier, they make the same tests in the same order, so they
\* return the same result and leave the same session and roster.
C34_CreateIsJoin ==
    \A args \in CmdArgs, started \in StartResults :
        CreateOutcome(current_lobby, players, args, started)
            = JoinOutcome(current_lobby, players, args, started)

\* A join has made the session, as a create would have.
C34_Witness ==
    /\ cmdOp = "join_lobby"
    /\ cmdRes = "Ok"
    /\ current_lobby.some
    /\ NewPlayer(cmdArgs.player_name) \in players

\* C35: when the join command returns an error (other than the refusal of
\* a second session), no session exists afterwards, the roster is empty and
\* the tunnel is stopped, so that a retry is not refused with AlreadyInLobby.
C35_FailedJoinLeavesNothing ==
    (cmdPc = "done" /\ cmdOp = "join" /\ cmdRes \notin {"Ok", "AlreadyInLobby"})
        => /\ ~current_lobby.some
           /\ players = {}
           /\ ~is_running
           /\ easytier_process = "None"

\* C36: while a session exists and no command is in progress, the tunnel is
\* Connected with the session's virtual address and get_virtual_ip() returns
\* that address: neither an exit of the daemon nor a later log line leaves the
\* session referring to a stopped tunnel or to another address.
C36_SessionFollowsTunnel ==
    (cmdPc = "idle" /\ current_lobby.some)
        => /\ status = Connected(current_lobby.virtual_ip)
           /\ virtual_ip = current_lobby.virtual_ip

\* stop_easytier has returned and no start_easytier has begun since: no
\* command is inside the Supervisor, no child handle and no directory record
\* is stored
StopReturned ==
    /\ cmdPc \in {"done", "idle"}
    /\ easytier_process = "None"
    /\ instance_config_dir = "None"

SupervisorAtRest == status = Disconnected /\ ~is_running /\ virtual_ip = NoIp

\* C37: after stop_easytier has returned and until the next start_easytier,
\* the Supervisor stays Disconnected, not running and without a virtual
\* address: no task left over from the stopped run writes its state.
C37_NoWriteAfterStop ==
    [][(StopReturned /\ StopReturned' /\ SupervisorAtRest) => SupervisorAtRest']_vars

\* C38: whenever no command is in progress, the application state is InLobby
\* exactly when the Session Manager holds a session.
C38_InLobbyIffSession ==
    (cmdPc = "idle" /\ ~appExited) => ((appState = "InLobby") <=> current_lobby.some)

\* C39: a datagram of any type that carries the local peer id changes
\* neither the directory nor the events: no "player-joined" and no
\* "player-left" is emitted for the local peer, also when its own PlayerLeft
\* broadcast comes back to it.
C39_OwnDatagramsIgnored ==
    [][\A m \in Datagrams :
          (/\ m.player_id = local_id
           /\ \/ RecvDiscover(1, m)
              \/ RecvHeartbeat(1, m)
              \/ RecvLeft(1, m))
            => (peer_map' = peer_map /\ emitted' = {})]_vars

BothBound == \A n \in NodeIds : lan.port[n] # 0

EachHoldsOther == \A n, k \in NodeIds : n # k => k \in DOMAIN lan.dir[n]

\* C40: two services with different ids on one broadcast domain, both
\* started, eventually hold each other in their directories, whichever port
\* each has bound.
C40_EachFindsTheOther == BothBound ~> EachHoldsOther

TypeOK ==
    /\ lan.port \in [NodeIds -> {0} \cup LanPorts]
    /\ lan.air \subseteq LanDatagrams
    /\ \A n \in NodeIds : DOMAIN lan.dir[n] \subseteq NodeIds
    /\ status.t \in {"Disconnected", "Connecting", "Connected", "Error"}
    /\ is_running \in BOOLEAN
    /\ easytier_process \in {"None", "Some"}
    /\ instance_config_dir \in {"None", "Some"}
    /\ outReaders \in 0..MaxTasks
    /\ errReaders \in 0..MaxTasks
    /\ monitors \in 0..MaxTasks
    /\ receivers \in 0..MaxTasks
    /\ Len(sent) <= 1

=============================================================================
